---- MODULE Spec2Model ----
(***************************************************************************)
(* DataPilot-AI: the asynchronous job engine.                              *)
(*                                                                         *)
(* Part 1 models the persisted job record (Redis key job:<id>), the        *)
(* data_jobs list, the upload / cancel / job-status endpoints, the worker  *)
(* main loop with process_job, and the worker's signal handler.  Every     *)
(* Redis GET and SET is one step, so a read-modify-write of a record is    *)
(* two steps and other processes may run in between.                       *)
(***************************************************************************)
EXTENDS Integers, Sequences, FiniteSets, TLC

\* ------------------------------------------------------------------ bounds
MaxTime == 1

\* -------------------------------------------------------- program constants
\* JOB_TIMEOUT_SECONDS (environment knob, default 600) in units of the model
\* clock, whose tick is longer than the timeout
JOB_TIMEOUT_SECONDS == 0

\* job identifiers (generate_job_id), and Python's None for an identifier
Jobs == {1, 2}
None == 0

Terminal == {"completed", "failed", "cancelled"}

VARIABLES
  rec,                  \* rec[j]: the JSON document stored under job:<j>
  queue,                \* the Redis list data_jobs, left end first
  now,                  \* wall clock
  errorJson,            \* errorJson[j]: error code of the stored error.json
  shutdown_requested,   \* worker.py global
  current_job_id,       \* worker.py global
  wpc,                  \* position of the worker's main thread
  wjob,                 \* process_job's job_id
  wdata,                \* the record last read by the step in progress
  wcode,                \* error_code argument of _fail_job_with_error_json
  wurl,                 \* error_url inside _fail_job_with_error_json
  wcount,               \* TRUE on the path that increments jobs_completed_total
  hpc,                  \* position inside signal_handler ("none": not running)
  hdata,                \* job_data read by signal_handler
  cancelReq,            \* cancel_job request in flight: job and job_data read
  pollReq,              \* get_job_status request in flight: job and data read
  metrics,              \* per job, the increments of the jobs_*_total counters
  seenCancelled,        \* jobs a worker checkpoint has read as cancelled
  variant,              \* which orchestration the process runs
  cb,                   \* that module's _circuit_breaker_state
  clock,                \* time.time() of the LLM client's process
  gpc,                  \* position inside the orchestration call
  gattempt,             \* retry_http_call's attempt number
  gresult,              \* how the latest orchestration call ended
  gcalls,               \* external requests sent by the latest call
  grecorded,            \* breaker outcomes recorded by the latest call
  grequests,            \* the latest call's requests: fix_structure, outcome
  gsince,               \* failures recorded since the last recorded success
  gcleared,             \* failure timestamps the last success removed
  tpc,                  \* tpc[t]: thread t's position in a breaker function
  tnow,                 \* tnow[t]: the current_time thread t read
  tkept,                \* tkept[t]: the filtered list thread t has built
  gcheck,               \* what the latest call's breaker check did
  norder,               \* the order in which this interpreter iterates the set
  na,                   \* an observed call of _normalize_value
  nb,                   \* a later observed call
  poison,               \* undecodable payloads pushed to data_jobs so far
  mholder,              \* who holds MetricsCollector.lock
  mainpc,               \* the main thread's position in run_worker
  mcall,                \* the metric the main thread is recording
  mcounters,            \* MetricsCollector.counters
  mcurrent,             \* current_job_id is set
  sigpc,                \* the signal handler's position
  flushing,             \* the auto-flush thread is inside get_snapshot
  uploadAnswer,         \* per job, the HTTP status upload_handler answered
  rfn,                  \* the retry function running ("none": not called)
  rargs,                \* its arguments
  rattempt,             \* its loop variable `attempt`
  routs,                \* what each invocation of fn came to, in order
  rdelays,              \* the sleeps taken, in tenths of a time unit
  rresult,              \* "returned" / "raised" once the call is over
  rerror,               \* the exception raised to the caller
  vraw,                 \* raw_output handed to validate_and_normalize
  vfacts,               \* compact_eda: preview length and chart ids
  vpc,                  \* "input", "validated", "revalidated"
  vfirst,               \* what the call on vraw came to
  vsecond,              \* what the call on the first call's output came to
  fa,                   \* an observed call of generate_fallback_insights
  fb,                   \* a later observed call
  fcount                \* calls of generate_fallback_insights so far

jobVars == <<rec, queue, now, errorJson, shutdown_requested,
             current_job_id, wpc, wjob, wdata, wcode, wurl, wcount, hpc,
             hdata, cancelReq, pollReq, metrics, seenCancelled>>

llmVars == <<variant, cb, clock, gpc, gattempt, gresult, gcalls, grecorded,
             grequests, gsince, gcleared, gcheck>>

retryVars == <<rfn, rargs, rattempt, routs, rdelays, rresult, rerror>>

\* the state of the library functions modelled on their own
validatorVars == <<vraw, vfacts, vpc, vfirst, vsecond>>

fallbackVars == <<fa, fb, fcount>>

\* two threads inside the breaker functions of one module
threadVars == <<tpc, tnow, tkept>>

\* _normalize_value on its own
normVars == <<norder, na, nb>>

\* payloads on data_jobs that are not JSON
poisonVars == <<poison>>

\* the worker process and its metrics collector under a signal
signalVars == <<mholder, mainpc, mcall, mcounters, mcurrent, sigpc, flushing>>

\* the answers of the upload API
uploadVars == <<uploadAnswer>>

moreVars == <<threadVars, normVars, poisonVars, signalVars, uploadVars>>

fnVars == <<retryVars, validatorVars, fallbackVars, moreVars>>

\* ------------------------------------------------------------ job record
NoRec == [status |-> "none", error |-> "none", errorMessage |-> FALSE,
          resultUrl |-> "none", cancelledAt |-> FALSE, timeoutAt |-> 0]

NoReq == [job |-> None, data |-> NoRec]

NoCounts == [received |-> 0, completed |-> 0, failed |-> 0]

\* _get_job_data: GET job:<id>
_get_job_data(j) == rec[j]

\* create_job_key with the job_data built by upload_handler
create_job_key(t) ==
  [NoRec EXCEPT !.status = "submitted", !.timeoutAt = t + JOB_TIMEOUT_SECONDS]

\* the comparison `now > timeout_at` of _check_timeout and of the status poll
TimedOut(data, t) == t > data.timeoutAt

JobInit ==
  /\ rec = [j \in Jobs |-> NoRec]
  /\ queue = <<>>
  /\ now = 0
  /\ errorJson = [j \in Jobs |-> "none"]
  /\ shutdown_requested = FALSE
  /\ current_job_id = None
  /\ wpc = "loop"
  /\ wjob = None
  /\ wdata = NoRec
  /\ wcode = "none"
  /\ wurl = FALSE
  /\ wcount = FALSE
  /\ hpc = "none"
  /\ hdata = NoRec
  /\ cancelReq = NoReq
  /\ pollReq = NoReq
  /\ metrics = [j \in Jobs |-> NoCounts]
  /\ seenCancelled = {}

\* increment("jobs_<name>_total"), made while handling job j; the counter
\* of the metrics collector is the sum over the jobs
increment(name, j) ==
  metrics' = [metrics EXCEPT ![j][name] = @ + 1]

\* ------------------------------------------------------------- the clock
Tick ==
  /\ now < MaxTime
  /\ now' = now + 1
  /\ UNCHANGED <<fnVars, llmVars, seenCancelled, rec, queue, errorJson,
                 shutdown_requested, current_job_id, wpc, wjob, wdata, wcode,
                 wurl, wcount, hpc, hdata, cancelReq, pollReq, metrics>>

\* ------------------------------------------------------------ upload API
\* generate_job_id: an identifier no record exists for (the lowest unused)
generate_job_id ==
  IF \A j \in Jobs : rec[j].status # "none" THEN None
  ELSE CHOOSE j \in Jobs : /\ rec[j].status = "none"
                           /\ \A k \in Jobs : k < j => rec[k].status # "none"

\* enqueue_job: RPUSH data_jobs (appends at the right end of the list)
enqueue_job(q, j) == Append(q, j)

\* upload_handler's answer after create_job_key: enqueue_job returns False
\* for a failed RPUSH, the handler does not read the result and answers
\* 200 `{jobId, status: submitted}`
upload_answer(pushed) == 200

\* upload_handler, from "Success - Update Redis" on: create the record, push
\* the queue item, answer 200.  enqueue_job swallows a failed RPUSH and
\* returns False, which upload_handler does not look at (pushed = FALSE).
upload_handler(j, pushed) ==
  /\ j = generate_job_id
  /\ rec' = [rec EXCEPT ![j] = create_job_key(now)]
  /\ queue' = IF pushed THEN enqueue_job(queue, j) ELSE queue
  /\ uploadAnswer' = [uploadAnswer EXCEPT ![j] = upload_answer(pushed)]
  /\ UNCHANGED <<retryVars, validatorVars, fallbackVars, threadVars, normVars,
                 poisonVars, signalVars, llmVars, seenCancelled, now, errorJson,
                 shutdown_requested, current_job_id, wpc, wjob, wdata, wcode,
                 wurl, wcount, hpc, hdata, cancelReq, pollReq, metrics>>

\* ------------------------------------------------------------ cancel API
\* an already cancelled job cancelled again
cancel_job_answer_again(data) ==
  IF data.status = "none" THEN [code |-> 404, write |-> FALSE]
  ELSE IF data.status \in {"completed", "failed"}
  THEN [code |-> 400, write |-> FALSE]
  ELSE [code |-> 200, write |-> TRUE]
\* cancel_job's answer to the job_data it read ("none": no such key) and
\* whether it goes on to SET
cancel_job_answer(data) ==
  IF data.status = "none" THEN [code |-> 404, write |-> FALSE]
  ELSE IF data.status \in {"completed", "failed"}
  THEN [code |-> 400, write |-> FALSE]
  ELSE IF data.status = "cancelled"
  THEN [code |-> 200, write |-> FALSE]
  ELSE [code |-> 200, write |-> TRUE]

\* cancel_job: GET job:<id> (404 when the key is absent) and the decision on
\* current_status; only a request that goes on to the SET stays in flight
cancel_job_get(j) ==
  /\ cancelReq = NoReq
  /\ cancelReq' = IF cancel_job_answer(_get_job_data(j)).write
                  THEN [job |-> j, data |-> _get_job_data(j)]
                  ELSE NoReq
  /\ UNCHANGED <<fnVars, llmVars, seenCancelled, rec, queue, now, errorJson,
                 shutdown_requested, current_job_id, wpc, wjob, wdata, wcode,
                 wurl, wcount, hpc, hdata, pollReq, metrics>>

\* cancel_job: SET the job_data read earlier, marked cancelled
cancel_job_set ==
  /\ cancelReq # NoReq
  /\ rec' = [rec EXCEPT ![cancelReq.job] =
               [cancelReq.data EXCEPT !.status = "cancelled",
                                      !.cancelledAt = TRUE]]
  /\ cancelReq' = NoReq
  /\ UNCHANGED <<fnVars, llmVars, seenCancelled, queue, now, errorJson,
                 shutdown_requested, current_job_id, wpc, wjob, wdata, wcode,
                 wurl, wcount, hpc, hdata, pollReq, metrics>>

\* --------------------------------------------------------- job-status API
\* the timeout check made whatever status was read
PollChecksAnyStatus(data) == TRUE

\* get_job_status: "Check for timeout if job is still processing"
PollChecksTimeout(data) == data.status = "processing"

\* get_job_status: GET job:<id> (404 when the key is absent); a record not
\* read as processing is answered as read, with no write
get_job_status_get(j) ==
  /\ pollReq = NoReq
  /\ rec[j].status # "none"
  /\ pollReq' = IF PollChecksTimeout(_get_job_data(j))
                THEN [job |-> j, data |-> _get_job_data(j)]
                ELSE NoReq
  /\ UNCHANGED <<fnVars, llmVars, seenCancelled, rec, queue, now, errorJson,
                 shutdown_requested, current_job_id, wpc, wjob, wdata, wcode,
                 wurl, wcount, hpc, hdata, cancelReq, metrics>>

\* get_job_status on a record read as processing: past its timeoutAt it is
\* SET to failed / timeout; otherwise it is answered as read
get_job_status_set ==
  /\ pollReq # NoReq
  /\ rec' = IF TimedOut(pollReq.data, now)
            THEN [rec EXCEPT ![pollReq.job] =
                    [pollReq.data EXCEPT !.status = "failed",
                                         !.error = "timeout",
                                         !.errorMessage = TRUE]]
            ELSE rec
  /\ pollReq' = NoReq
  /\ UNCHANGED <<fnVars, llmVars, seenCancelled, queue, now, errorJson,
                 shutdown_requested, current_job_id, wpc, wjob, wdata, wcode,
                 wurl, wcount, hpc, hdata, cancelReq, metrics>>

\* --------------------------------------------------------- signal handler
\* signal_handler runs on the worker's main thread: while it runs (hpc #
\* "none") the main loop makes no step.  First part: set shutdown_requested,
\* and with a current job GET its record; only a record read as processing
\* is rewritten.
signal_handler ==
  /\ hpc = "none"
  /\ wpc # "exited"
  /\ shutdown_requested' = TRUE
  /\ IF current_job_id # None
        /\ _get_job_data(current_job_id).status = "processing"
     THEN hpc' = "set" /\ hdata' = _get_job_data(current_job_id)
     ELSE hpc' = "none" /\ hdata' = NoRec
  /\ UNCHANGED <<fnVars, llmVars, seenCancelled, rec, queue, now, errorJson,
                 current_job_id, wpc, wjob, wdata, wcode, wurl, wcount,
                 cancelReq, pollReq, metrics>>

\* signal_handler, second part: SET failed / worker_shutdown, count it
signal_handler_set ==
  /\ hpc = "set"
  /\ rec' = [rec EXCEPT ![current_job_id] =
               [hdata EXCEPT !.status = "failed", !.error = "worker_shutdown",
                             !.errorMessage = TRUE]]
  /\ increment("failed", current_job_id)
  /\ hpc' = "none"
  /\ hdata' = NoRec
  /\ UNCHANGED <<fnVars, llmVars, seenCancelled, queue, now, errorJson,
                 shutdown_requested, current_job_id, wpc, wjob, wdata, wcode,
                 wurl, wcount, cancelReq, pollReq>>

(***************************************************************************)
(* Part 2: the insight orchestration (llm_client.generate_insights and     *)
(* llm_client_fewshot.generate_insights_fewshot), its circuit breaker and  *)
(* the retry decisions of retry_http_call.  The two modules keep separate  *)
(* but identically coded breaker states; `variant` says which module the   *)
(* process runs.  Times are whole seconds; time.time() is never 0.         *)
(***************************************************************************)
Variants == {"llm_client", "llm_client_fewshot"}

\* LLM_RETRY_ATTEMPTS (default 2)
LLM_RETRY_ATTEMPTS == 2
\* LLM_CIRCUIT_THRESHOLD / WINDOW / COOLDOWN (environment knobs, defaults
\* 5 / 300 / 600), scaled to model time
LLM_CIRCUIT_THRESHOLD == 2
LLM_CIRCUIT_WINDOW == 2
LLM_CIRCUIT_COOLDOWN == 2

MaxClock == 6

\* _circuit_breaker_state as created at import (opened_at None is 0)
ClosedBreaker == [failures |-> <<>>, is_open |-> FALSE, opened_at |-> 0]

\* the window without its oldest second: `ts > window_start`
InWindowStrict(ts, t) == ts > t - LLM_CIRCUIT_WINDOW

\* `ts >= window_start` with window_start = current_time - LLM_CIRCUIT_WINDOW
InWindow(ts, t) == ts >= t - LLM_CIRCUIT_WINDOW

\* the threshold only exceeded: `len(failures) > LLM_CIRCUIT_THRESHOLD`
ThresholdReachedStrict(n) == n > LLM_CIRCUIT_THRESHOLD

\* `len(failures) >= LLM_CIRCUIT_THRESHOLD`
ThresholdReached(n) == n >= LLM_CIRCUIT_THRESHOLD

\* the cooldown only exceeded: `(current_time - opened_at) > ...`
CooldownElapsedStrict(openedAt, t) == (t - openedAt) > LLM_CIRCUIT_COOLDOWN

\* `(current_time - opened_at) >= LLM_CIRCUIT_COOLDOWN`
CooldownElapsed(openedAt, t) == (t - openedAt) >= LLM_CIRCUIT_COOLDOWN

\* _check_circuit_breaker at time t: the new state and the value returned
_check_circuit_breaker(s, t) ==
  IF s.is_open
  THEN IF s.opened_at # 0 /\ CooldownElapsed(s.opened_at, t)
       THEN [state |-> ClosedBreaker, open |-> FALSE]
       ELSE [state |-> s, open |-> TRUE]
  ELSE LET kept == SelectSeq(s.failures, LAMBDA ts : InWindow(ts, t))
       IN  IF ThresholdReached(Len(kept))
           THEN [state |-> [failures |-> kept, is_open |-> TRUE,
                            opened_at |-> t],
                 open |-> TRUE]
           ELSE [state |-> [s EXCEPT !.failures = kept], open |-> FALSE]

\* how a check at time t shows in the log: the breaker stays open, closes
\* after the cooldown, opens on the threshold, or lets the call pass
CheckKind(s, t) ==
  LET r == _check_circuit_breaker(s, t) IN
  IF s.is_open THEN (IF r.open THEN "open" ELSE "closes")
  ELSE (IF r.open THEN "opens" ELSE "passes")

\* the timestamp appended twice
_record_llm_failure_twice(s, t) ==
  [s EXCEPT !.failures = Append(Append(@, t), t)]

\* _record_llm_failure at time t
_record_llm_failure(s, t) == [s EXCEPT !.failures = Append(@, t)]

\* the history kept on a success
_record_llm_success_keeps(s) == s

\* _record_llm_success
_record_llm_success(s) ==
  IF s.failures # <<>> THEN [s EXCEPT !.failures = <<>>] ELSE s

\* What one request to the LLM service can come to.  Bodies of a 200 answer:
\* a JSON object with usable content, a JSON object without any, JSON that is
\* not an object, text that is not JSON.  Failures: HTTP status errors, a
\* built-in ConnectionError / TimeoutError / IOError, and the client
\* library's own connection error (no status code, not a built-in class).
Bodies == {"valid", "empty", "nondict", "unparseable"}
Errors == {"http_500", "http_429", "http_401", "http_403", "http_400",
           "network", "api_connection"}
Outcomes == Bodies \cup Errors

\* the status_code retry_http_call finds on the exception (0: none)
status_code(e) ==
  CASE e = "http_500" -> 500
    [] e = "http_429" -> 429
    [] e = "http_401" -> 401
    [] e = "http_403" -> 403
    [] e = "http_400" -> 400
    [] OTHER -> 0

\* every status from 400 on retried
should_retry_any_status(e, attempt) ==
  IF status_code(e) # 0 THEN status_code(e) >= 400 ELSE e = "network"

\* retry_http_call: should_retry for the exception of attempt number `attempt`
should_retry(e, attempt) ==
  IF status_code(e) # 0
  THEN \/ status_code(e) >= 500
       \/ status_code(e) = 429
       \/ (status_code(e) \in {401, 403} /\ attempt = 1)
  ELSE e = "network"

\* retry_http_call: `if not should_retry or attempt == attempts: raise`
retry_raises(e, attempt, attempts) ==
  ~should_retry(e, attempt) \/ attempt = attempts

\* exceptions raised inside _make_llm_call: llm_client parses and validates
\* inside it (ValueError for non-JSON text, AttributeError for a non-object),
\* llm_client_fewshot only returns the text
FnRaises(v, o) ==
  IF v = "llm_client" THEN o \in Errors \cup {"unparseable", "nondict"}
  ELSE o \in Errors

\* a clause catching only the ValueError of unparseable output
except_ValueError(e) == e = "unparseable"

\* the orchestration's `except Exception` clause around the call
except_Exception(e) == e \in Outcomes

\* validate_and_normalize returned an output (not None)
ValidationPasses(o) == o = "valid"

LLMInit ==
  /\ cb = ClosedBreaker
  /\ clock = 1
  /\ gpc = "idle"
  /\ gattempt = 0
  /\ gresult = "none"
  /\ gcalls = 0
  /\ grecorded = 0
  /\ grequests = <<>>
  /\ gsince = 0
  /\ gcleared = 0
  /\ gcheck = "none"

ClockTick ==
  /\ clock < MaxClock
  /\ clock' = clock + 1
  /\ UNCHANGED <<fnVars, jobVars, variant, cb, gpc, gattempt, gresult, gcalls,
                 grecorded, grequests, gsince, gcleared, gcheck>>

\* generate_insights / generate_insights_fewshot up to the LLM call: mock
\* mode, breaker check, missing API key, prompt that cannot be built (an
\* unreadable template; the EDA values put into it are JSON-serialisable)
orchestration_begin(mock, apiKey, promptOk) ==
  /\ gpc = "idle"
  /\ gcalls' = 0
  /\ grequests' = <<>>
  /\ IF mock
     THEN /\ gresult' = "mock"
          /\ grecorded' = 0
          /\ gcheck' = "none"
          /\ UNCHANGED <<cb, gpc, gattempt, gsince>>
     ELSE LET chk == _check_circuit_breaker(cb, clock) IN
          /\ gcheck' = CheckKind(cb, clock)
          /\ IF chk.open
             THEN /\ cb' = chk.state
                  /\ gresult' = "fallback"
                  /\ grecorded' = 0
                  /\ UNCHANGED <<gpc, gattempt, gsince>>
             ELSE IF ~apiKey \/ ~promptOk
             THEN /\ cb' = _record_llm_failure(chk.state, clock)
                  /\ gresult' = "fallback"
                  /\ grecorded' = 1
                  /\ gsince' = gsince + 1
                  /\ UNCHANGED <<gpc, gattempt>>
             ELSE /\ cb' = chk.state
                  /\ gresult' = "none"
                  /\ grecorded' = 0
                  /\ gsince' = gsince
                  /\ gpc' = "call"
                  /\ gattempt' = 1
  /\ UNCHANGED <<fnVars, jobVars, variant, clock, gcleared>>

\* the call ended with exception e reaching the orchestration's handler:
\* record a breaker failure and return the fallback
OrchestrationFails(e) ==
  /\ IF except_Exception(e)
     THEN /\ cb' = _record_llm_failure(cb, clock)
          /\ gresult' = "fallback"
          /\ grecorded' = grecorded + 1
          /\ gsince' = gsince + 1
     ELSE /\ gresult' = "raised"
          /\ UNCHANGED <<cb, grecorded, gsince>>
  /\ gcleared' = gcleared
  /\ gpc' = "idle"
  /\ gattempt' = 0

\* the output was validated: success is recorded and the result returned,
\* or (fewshot, validation returned None) a failure and the fallback
OrchestrationReturns(o) ==
  /\ IF variant = "llm_client" \/ ValidationPasses(o)
     THEN /\ cb' = _record_llm_success(cb)
          /\ gresult' = "llm"
          /\ gsince' = 0
          /\ gcleared' = Len(cb.failures)
     ELSE /\ cb' = _record_llm_failure(cb, clock)
          /\ gresult' = "fallback"
          /\ gsince' = gsince + 1
          /\ gcleared' = gcleared
  /\ grecorded' = grecorded + 1
  /\ gpc' = "idle"
  /\ gattempt' = 0

\* one attempt of retry_http_call(_make_llm_call, attempts=LLM_RETRY_ATTEMPTS)
\* with outcome o, and what the orchestration does when the call is over
orchestration_attempt(o) ==
  /\ gpc = "call"
  /\ gcalls' = gcalls + 1
  /\ grequests' = Append(grequests, [fix_structure |-> FALSE, outcome |-> o])
  /\ IF FnRaises(variant, o)
     THEN IF retry_raises(o, gattempt, LLM_RETRY_ATTEMPTS)
          THEN OrchestrationFails(o)
          ELSE /\ gattempt' = gattempt + 1
               /\ UNCHANGED <<cb, gpc, gresult, grecorded, gsince, gcleared>>
     ELSE IF variant = "llm_client_fewshot" /\ o = "unparseable"
          THEN /\ gpc' = "fix"
               /\ gattempt' = 1
               /\ UNCHANGED <<cb, gresult, grecorded, gsince, gcleared>>
          ELSE OrchestrationReturns(o)
  /\ UNCHANGED <<fnVars, jobVars, variant, clock, gcheck>>

\* generate_insights_fewshot: "Retry with fix instruction", a single attempt
\* (attempts=1); text that again is not JSON raises out of the handler of the
\* first JSONDecodeError into the outer `except Exception`
fewshot_fix_attempt(o) ==
  /\ gpc = "fix"
  /\ gcalls' = gcalls + 1
  /\ grequests' = Append(grequests, [fix_structure |-> TRUE, outcome |-> o])
  /\ IF FnRaises(variant, o) \/ o = "unparseable"
     THEN OrchestrationFails(o)
     ELSE OrchestrationReturns(o)
  /\ UNCHANGED <<fnVars, jobVars, variant, clock, gcheck>>

\* can llm_client.generate_insights raise to process_job
generate_insights_raises == \E e \in Outcomes : ~except_Exception(e)

(***************************************************************************)
(* Part 3: lib/retry.py on its own.  One call of retry_with_backoff or of  *)
(* retry_http_call: its arguments, the outcome of each invocation of fn    *)
(* (a result, or one of the exceptions of Part 2), the sleeps in between.  *)
(* Delays are in tenths of the unit of initial_delay and max_delay, the    *)
(* jitter random.uniform(0.9, 1.1) in tenths too.                          *)
(***************************************************************************)
RetryFns == {"retry_with_backoff", "retry_http_call"}

MaxAttempts == 3

\* DEFAULT_RETRY_EXCEPTIONS: ConnectionError, TimeoutError, IOError
DEFAULT_RETRY_EXCEPTIONS == {"network"}

\* retry_exceptions arguments: the default, and one that adds server errors
RetrySets == {DEFAULT_RETRY_EXCEPTIONS, {"network", "http_500"}}

\* what one invocation of fn comes to
FnOutcomes == {"ok"} \cup Errors

\* random.uniform(0.9, 1.1), in tenths: the ends and the middle
Jitters == {9, 10, 11}

NoArgs == [attempts |-> 0, initial_delay |-> 0, factor |-> 0,
           max_delay |-> 0, retry_exceptions |-> {}]

RetryArgs ==
  [attempts : 0..MaxAttempts, initial_delay : {0, 1, 2}, factor : {1, 2},
   max_delay : {1, 3}, retry_exceptions : RetrySets]

RECURSIVE Pow(_, _)
Pow(b, n) == IF n = 0 THEN 1 ELSE b * Pow(b, n - 1)

Min(a, b) == IF a <= b THEN a ELSE b

\* the exponent one too high: factor ** attempt
backoff_delay_late(a, attempt) ==
  Min(a.max_delay, a.initial_delay * Pow(a.factor, attempt))

\* `delay = min(max_delay, initial_delay * (factor ** (attempt - 1)))`
backoff_delay(a, attempt) ==
  Min(a.max_delay, a.initial_delay * Pow(a.factor, attempt - 1))

\* retry_with_backoff: `except retry_exceptions` against `except Exception`
backoff_retries(e, a) == e \in a.retry_exceptions

\* the first exception of the run instead of the current one
raised_first(outs) == outs[1]

\* the bare `raise` of both functions: the exception of the invocation
\* that just failed
raised_error(outs) == outs[Len(outs)]

\* does the handler of attempt number `attempt` raise (instead of sleeping)
RetryRaises(f, e, attempt, a) ==
  IF f = "retry_http_call" THEN retry_raises(e, attempt, a.attempts)
  ELSE ~backoff_retries(e, a) \/ attempt = a.attempts

RetryIdle ==
  /\ rfn = "none"
  /\ rargs = NoArgs
  /\ rattempt = 0
  /\ routs = <<>>
  /\ rdelays = <<>>
  /\ rresult = "none"
  /\ rerror = "none"

\* the call: `for attempt in range(1, attempts + 1)`; an empty range falls
\* through to `raise RuntimeError`
retry_call(f, a) ==
  /\ rfn = "none"
  /\ rfn' = f
  /\ rargs' = a
  /\ IF a.attempts >= 1
     THEN rattempt' = 1 /\ rresult' = "none" /\ rerror' = "none"
     ELSE rattempt' = 0 /\ rresult' = "raised" /\ rerror' = "RuntimeError"
  /\ UNCHANGED <<jobVars, llmVars, validatorVars, fallbackVars, moreVars, routs,
                 rdelays>>

\* one pass of the loop body: invoke fn; return its result, or raise, or
\* sleep the jittered delay and go on to the next attempt (after the last
\* pass of the range: `raise last_exception`)
retry_attempt(o, jitter) ==
  /\ rfn # "none" /\ rresult = "none"
  /\ routs' = Append(routs, o)
  /\ IF o = "ok"
     THEN /\ rresult' = "returned"
          /\ UNCHANGED <<rattempt, rdelays, rerror>>
     ELSE IF RetryRaises(rfn, o, rattempt, rargs)
     THEN /\ rresult' = "raised"
          /\ rerror' = raised_error(routs')
          /\ UNCHANGED <<rattempt, rdelays>>
     ELSE /\ rdelays' = Append(rdelays, backoff_delay(rargs, rattempt) * jitter)
          /\ IF rattempt < rargs.attempts
             THEN rattempt' = rattempt + 1 /\ UNCHANGED <<rresult, rerror>>
             ELSE /\ rresult' = "raised"
                  /\ rerror' = routs'[Len(routs')]
                  /\ UNCHANGED rattempt
  /\ UNCHANGED <<jobVars, llmVars, validatorVars, fallbackVars, moreVars, rfn,
                 rargs>>

(***************************************************************************)
(* Part 4: lib/insight_validator.py on its own.  JSON values are records   *)
(* of tags: a field's tag says whether the key is absent and which type    *)
(* its value has; the fields visualActions and metadata, normalised        *)
(* independently of the others, are left out.                              *)
(***************************************************************************)
MaxIndices == 2

\* a row_indices entry: an int, a float (val in halves), a numeric string,
\* a non-numeric string, null
Entry(k, v) == [kind |-> k, val |-> v]
Entries == {Entry("int", 0), Entry("int", 5), Entry("int", -1),
            Entry("float", -1), Entry("str", 1), Entry("null", 0)}

\* Python's int(idx): truncation toward zero for a float, parsing for a
\* string; ValueError / TypeError for what is not a number
int_raises(e) == e.kind \in {"strx", "null"}
int_of(e) ==
  IF e.kind = "float"
  THEN (IF e.val >= 0 THEN e.val \div 2 ELSE -((-e.val) \div 2))
  ELSE e.val

Issue(i, k, v) == [id |-> i, kind |-> k, val |-> v]

\* a raw insight: a list item that is a dict
RawInsight(idt, id, text, evt, agg, rit, ri, cht, ch) ==
  [t |-> "dict", id_t |-> idt, id |-> id, text |-> text, ev_t |-> evt,
   agg |-> agg, ri_t |-> rit, ri |-> ri, chart_t |-> cht, chart |-> ch]

\* a list item that is not a dict
NonDictItem == [RawInsight("absent", "", "absent", "absent", "absent",
                           "absent", <<>>, "absent", "") EXCEPT !.t = "other"]

\* f"i{idx+1}"
GenId(idx) == <<"i1", "i2", "i3", "i4">>[idx + 1]

\* insight_id.startswith('i')
StartsWithI(id) == id \in {"i1", "i2", "i3", "i4", "i7"}

\* len(text) < 10 for the texts that have a length; "note" is the
\* replacement "Insight description missing"
TooShort(text) == text \in {"empty", "short", "list"}

IndexLists ==
  UNION {[1..n -> Entries] : n \in 0..MaxIndices}

\* the raw insights tried: every row_indices list with a kept and with a
\* replaced id; every chart_id and aggregates shape; every id and text
\* shape with and without a well-formed evidence
RawInsights ==
  {RawInsight("str", id, "long", "dict", "absent", "list", ri, "absent", "") :
     id \in {"i7", "x1"}, ri \in IndexLists}
  \cup
  {RawInsight("str", "i7", "long", "dict", agg, rit, <<Entry("int", 0)>>,
              c[1], c[2]) :
     agg \in {"absent", "nondict", "known", "unknown"},
     rit \in {"absent", "nonlist", "list"},
     c \in {<<"absent", "">>, <<"str", "chart_1">>, <<"str", "chart_9">>,
            <<"unhashable", "">>}}
  \cup
  {RawInsight(i[1], i[2], text, evt, "absent", "absent", <<>>, "absent", "") :
     i \in {<<"absent", "">>, <<"str", "i7">>, <<"str", "x1">>,
            <<"other", "">>},
     text \in {"absent", "empty", "short", "long", "int", "list"},
     evt \in {"absent", "nondict", "dict"}}

\* an insight with nothing to repair, and one with a short text and a row
\* index out of range
LaterItems_clean ==
  RawInsight("absent", "", "long", "absent", "absent", "absent", <<>>,
             "absent", "")
LaterItems_flawed ==
  RawInsight("str", "i7", "short", "dict", "absent", "list",
             <<Entry("int", 5)>>, "absent", "")

\* the items that may follow the first one in analystInsights
LaterItems == {NonDictItem, LaterItems_clean, LaterItems_flawed}

InsightLists ==
  {<<>>} \cup {<<a>> : a \in RawInsights \cup {NonDictItem}}
  \cup {<<a, b>> : a \in RawInsights \cup {NonDictItem}, b \in LaterItems}

RawOutput(top, nested, it, items, st, summary) ==
  [top |-> top, nested |-> nested, insights_t |-> it, insights |-> items,
   summary_t |-> st, summary |-> summary]

\* the raw outputs tried: any list of items with a good summary, and every
\* top-level / field shape with no, one clean or one flawed insight
RawOutputs ==
  {RawOutput("dict", "no", "list", items, "list", <<"text">>) :
     items \in InsightLists}
  \cup
  {RawOutput(tn[1], tn[2], it[1], it[2], sm[1], sm[2]) :
     tn \in {<<"dict", "no">>, <<"dict", "dict">>, <<"dict", "nondict">>,
             <<"other", "no">>},
     it \in {<<"absent", <<>> >>, <<"other", <<>> >>, <<"list", <<>> >>,
             <<"dict", <<LaterItems_clean>> >>,
             <<"list", <<LaterItems_flawed>> >>},
     sm \in {<<"absent", <<>> >>, <<"other", <<>> >>, <<"list", <<>> >>,
             <<"list", <<"text", "empty">> >>}}

\* compact_eda: len(cleanedPreview) and the ids of chartSpecs
Facts == [preview_len : {0, 2}, charts : {{"chart_1"}}]

\* the loop over raw_indices: an entry int() converts is kept if in range
\* and reported if not; one int() raises on is reported
RECURSIVE row_indices_loop(_, _)
row_indices_loop(raw_indices, max_index) ==
  IF raw_indices = <<>>
  THEN [kept |-> <<>>, issues |-> <<>>]
  ELSE LET idx == Head(raw_indices)
           rest == row_indices_loop(Tail(raw_indices), max_index)
       IN  IF int_raises(idx)
           THEN [kept |-> rest.kept,
                 issues |-> <<Issue("", "row_index_not_integer", idx.val)>>
                            \o rest.issues]
           ELSE IF 0 <= int_of(idx) /\ int_of(idx) <= max_index
           THEN [kept |-> <<int_of(idx)>> \o rest.kept,
                 issues |-> rest.issues]
           ELSE [kept |-> rest.kept,
                 issues |-> <<Issue("", "row_index_out_of_range",
                                    int_of(idx))>> \o rest.issues]

\* {}: the evidence used when the key is absent or its value is not a dict
EmptyEvidence(insight) ==
  [insight EXCEPT !.agg = "absent", !.ri_t = "absent", !.ri = <<>>,
                  !.chart_t = "absent", !.chart = ""]

\* `chart_id not in chart_ids` hashes chart_id: a list or dict raises
_validate_evidence(evidence, compact_eda) ==
  LET agg_issues ==
        IF evidence.agg = "nondict"
        THEN <<Issue("", "aggregates_not_dict", 0)>>
        ELSE IF evidence.agg = "unknown"
        THEN <<Issue("", "aggregate_key_unknown", 0)>>
        ELSE <<>>
      raw_indices == IF evidence.ri_t = "list" THEN evidence.ri ELSE <<>>
      ri_issues ==
        IF evidence.ri_t = "nonlist"
        THEN <<Issue("", "row_indices_not_list", 0)>> ELSE <<>>
      loop == row_indices_loop(raw_indices, compact_eda.preview_len - 1)
      known == /\ evidence.chart_t = "str"
               /\ evidence.chart \in compact_eda.charts
      chart_issues ==
        IF evidence.chart_t = "str" /\ ~known
        THEN <<Issue("", "chart_not_found", 0)>> ELSE <<>>
  IN  [raised |-> evidence.chart_t = "unhashable",
       agg    |-> IF evidence.agg \in {"known", "unknown"}
                  THEN evidence.agg ELSE "none",
       ri     |-> loop.kept,
       chart  |-> IF known THEN evidence.chart ELSE "null",
       issues |-> agg_issues \o ri_issues \o loop.issues \o chart_issues]

\* insight_id.startswith raises on an id that is not a string, len(text)
\* on a truthy text that has no length
_normalize_insight(insight, idx, compact_eda) ==
  LET insight_id ==
        IF insight.id_t = "str" /\ StartsWithI(insight.id)
        THEN insight.id ELSE GenId(idx)
      text_bad == insight.text \in {"absent", "empty"} \/ TooShort(insight.text)
      raw_evidence ==
        IF insight.ev_t = "dict" THEN insight ELSE EmptyEvidence(insight)
      ev == _validate_evidence(raw_evidence, compact_eda)
  IN  [raised  |-> insight.id_t = "other" \/ insight.text = "int" \/ ev.raised,
       insight |-> [id |-> insight_id,
                    text |-> IF text_bad THEN "note" ELSE insight.text,
                    agg |-> ev.agg, ri |-> ev.ri, chart |-> ev.chart],
       issues  |->
         (IF text_bad THEN <<Issue(insight_id, "text_missing", 0)>> ELSE <<>>)
         \o (IF insight.ev_t = "nondict"
             THEN <<Issue(insight_id, "evidence_not_dict", 0)>> ELSE <<>>)
         \o [i \in 1..Len(ev.issues) |->
               [ev.issues[i] EXCEPT !.id = insight_id]]]

\* the loop over enumerate(raw_insights)
RECURSIVE insights_loop(_, _, _)
insights_loop(raw_insights, idx, compact_eda) ==
  IF raw_insights = <<>>
  THEN [raised |-> FALSE, insights |-> <<>>, issues |-> <<>>]
  ELSE LET insight == Head(raw_insights)
           rest == insights_loop(Tail(raw_insights), idx + 1, compact_eda)
           n == _normalize_insight(insight, idx, compact_eda)
       IN  IF insight.t # "dict"
           THEN [rest EXCEPT
                   !.issues = <<Issue("", "item_not_dict", idx)>> \o @]
           ELSE [raised   |-> n.raised \/ rest.raised,
                 insights |-> <<n.insight>> \o rest.insights,
                 issues   |-> n.issues \o rest.issues]

EmptyOutput == [analystInsights |-> <<>>, businessSummary |-> <<>>,
                total_insights |-> 0, issues |-> <<>>]
NoResult == [res |-> "nothing", out |-> EmptyOutput, issues |-> <<>>]
Raised == [res |-> "raised", out |-> EmptyOutput, issues |-> <<>>]

\* the returned pair; "none" is (None, issues), "raised" an exception.
\* raw_output['insights'].get raises when the nested value is not a dict.
validate_and_normalize(raw_output, compact_eda) ==
  IF raw_output.top # "dict"
  THEN [res |-> "none", out |-> EmptyOutput,
        issues |-> <<Issue("", "output_not_dict", 0)>>]
  ELSE IF raw_output.nested = "nondict"
  THEN Raised
  ELSE
    LET raw_insights ==
          IF raw_output.insights_t \in {"list", "dict"}
          THEN raw_output.insights ELSE <<>>
        loop == insights_loop(raw_insights, 0, compact_eda)
        business_summary ==
          SelectSeq(IF raw_output.summary_t = "list"
                    THEN raw_output.summary ELSE <<>>,
                    LAMBDA item : item # "empty")
        issues ==
          (IF raw_output.insights_t = "other"
           THEN <<Issue("", "insights_not_list", 0)>> ELSE <<>>)
          \o loop.issues
          \o (IF raw_output.summary_t = "other"
              THEN <<Issue("", "summary_not_list", 0)>> ELSE <<>>)
    IN  IF loop.raised
        THEN Raised
        ELSE IF loop.insights = <<>> /\ business_summary = <<>>
        THEN [res |-> "none", out |-> EmptyOutput,
              issues |-> issues \o <<Issue("", "critical", 0)>>]
        ELSE [res |-> "output",
              out |-> [analystInsights |-> loop.insights,
                       businessSummary |-> business_summary,
                       total_insights |-> Len(loop.insights),
                       issues |-> issues],
              issues |-> issues]

\* a normalized output read as a raw output: what the second call is given
AsRawInsight(n) ==
  RawInsight("str", n.id, n.text, "dict",
             IF n.agg = "none" THEN "absent" ELSE n.agg,
             "list", [i \in 1..Len(n.ri) |-> Entry("int", n.ri[i])],
             IF n.chart = "null" THEN "absent" ELSE "str",
             IF n.chart = "null" THEN "" ELSE n.chart)
AsRaw(out) ==
  RawOutput("dict", "no", "list",
            [i \in 1..Len(out.analystInsights) |->
               AsRawInsight(out.analystInsights[i])],
            "list", out.businessSummary)

ValidatorIdle ==
  /\ vraw = RawOutput("other", "no", "absent", <<>>, "absent", <<>>)
  /\ vfacts = [preview_len |-> 0, charts |-> {"chart_1"}]
  /\ vpc = "idle"
  /\ vfirst = NoResult
  /\ vsecond = NoResult

ValidatorInit ==
  /\ vraw \in RawOutputs
  /\ vfacts \in Facts
  /\ vpc = "input"
  /\ vfirst = NoResult
  /\ vsecond = NoResult

\* validate_and_normalize(raw_output, compact_eda)
validator_call ==
  /\ vpc = "input"
  /\ vfirst' = validate_and_normalize(vraw, vfacts)
  /\ vpc' = "validated"
  /\ UNCHANGED <<jobVars, llmVars, retryVars, fallbackVars, moreVars, vraw,
                 vfacts, vsecond>>

\* validate_and_normalize(N, compact_eda) on the output N of the first call
validator_recall ==
  /\ vpc = "validated"
  /\ vfirst.res = "output"
  /\ vsecond' = validate_and_normalize(AsRaw(vfirst.out), vfacts)
  /\ vpc' = "revalidated"
  /\ UNCHANGED <<jobVars, llmVars, retryVars, fallbackVars, moreVars, vraw,
                 vfacts, vfirst>>

(***************************************************************************)
(* Part 5: lib/fallback_generator.py on its own.  A float is the pair of   *)
(* integers whose quotient it is; a text is its template (the category)    *)
(* and the values the template interpolates.                               *)
(***************************************************************************)
MaxCalls == 3

\* kpis.numericStats in the order of the JSON object, as items() yields it
Stats(col, min, max, median) ==
  [col |-> col, min |-> min, max |-> max, median |-> median]

NumericStatsTried ==
  {<<>>, <<Stats("a", 1, 20, 5)>>,
   <<Stats("b", 0, 5, 1), Stats("a", 1, 20, 5)>>,
   <<Stats("a", 1, 20, 5), Stats("b", 1, 50, 2)>>}

CorrelationsTried ==
  {<<>>,
   <<[col1 |-> "a", col2 |-> "b", r |-> 50],
     [col1 |-> "b", col2 |-> "a", r |-> -95]>>,
   <<[col1 |-> "a", col2 |-> "b", r |-> 80],
     [col1 |-> "b", col2 |-> "a", r |-> -95]>>}

\* the preview rows tried: the maximum of a in one row, and in two
PreviewsTried ==
  {<<[a |-> 5, b |-> 1], [a |-> 20, b |-> 5]>>,
   <<[a |-> 20, b |-> 1], [a |-> 20, b |-> 5]>>}

\* the chart specs tried: none, one of a against b, and one of another
\* column before it
ChartSpecsTried ==
  {<<>>,
   <<[id |-> "chart_1", x |-> "b", y |-> "a"]>>,
   <<[id |-> "chart_0", x |-> "c", y |-> "c"],
     [id |-> "chart_1", x |-> "b", y |-> "a"]>>}

\* compact_eda; r is in hundredths.  Of 200 cells 1 is 0.5%, 2 are 1% and
\* 30 are 15%; of 100 rows 1 is 1% and 20 are 20%
FallbackFacts ==
  [rowCount : {0, 100}, columnCount : {2}, missingCells : {0, 1, 2, 30},
   duplicateRows : {0, 1, 20},
   schema : {<<[column |-> "a", missing |-> 1],
               [column |-> "b", missing |-> 2]>>},
   numericStats : NumericStatsTried,
   cleanedPreview : PreviewsTried,
   chartSpecs : ChartSpecsTried,
   correlations : CorrelationsTried]

\* the first index at which hits is TRUE, 0 if there is none: where a for
\* loop over the sequence returns or breaks
FirstIndex(hits) ==
  IF \E i \in DOMAIN hits : hits[i]
  THEN CHOOSE i \in DOMAIN hits : hits[i] /\ \A j \in 1..(i - 1) : ~hits[j]
  ELSE 0

\* 'high' if pct > 10 else 'medium' if pct > 5 else 'low', pct = 100 n / d
severity_of(n, d) ==
  IF 100 * n > 10 * d THEN "high"
  ELSE IF 100 * n > 5 * d THEN "medium" ELSE "low"

FallbackInsight(id, category, severity, cols, nums, rows, chart, who, prio) ==
  [id |-> id, category |-> category, severity |-> severity, cols |-> cols,
   nums |-> nums, row_indices |-> rows, chart_id |-> chart, who |-> who,
   priority |-> prio]

\* the result None of an insight generator
NoInsight ==
  FallbackInsight("", "none", "", <<>>, <<>>, <<>>, "null", "", "")

_generate_missing_data_insight(kpis, insight_id) ==
  LET total_cells == kpis.rowCount * kpis.columnCount
      max_missing_col ==
        FirstIndex([i \in DOMAIN kpis.schema |->
                      /\ kpis.schema[i].missing > 0
                      /\ \A k \in DOMAIN kpis.schema :
                           kpis.schema[k].missing <= kpis.schema[i].missing])
  IN  IF kpis.rowCount = 0 \/ kpis.columnCount = 0
      THEN NoInsight
      ELSE IF 100 * kpis.missingCells < total_cells
      THEN NoInsight
      ELSE FallbackInsight(
             GenId(insight_id - 1), "missing_data",
             severity_of(kpis.missingCells, total_cells),
             IF max_missing_col = 0 THEN <<>>
             ELSE <<kpis.schema[max_missing_col].column>>,
             <<total_cells, kpis.missingCells>>
               \o (IF max_missing_col = 0 THEN <<>>
                   ELSE <<kpis.schema[max_missing_col].missing,
                          kpis.rowCount>>),
             <<>>, "null", "data_engineer",
             IF 100 * kpis.missingCells > 10 * total_cells
             THEN "high" ELSE "medium")

_generate_duplicate_insight(kpis, insight_id) ==
  IF kpis.duplicateRows = 0 \/ kpis.rowCount = 0
  THEN NoInsight
  ELSE IF 100 * kpis.duplicateRows < kpis.rowCount
  THEN NoInsight
  ELSE FallbackInsight(
         GenId(insight_id - 1), "duplicate",
         severity_of(kpis.duplicateRows, kpis.rowCount), <<>>,
         <<kpis.rowCount, kpis.duplicateRows>>, <<>>, "null",
         "data_engineer",
         IF 100 * kpis.duplicateRows > 10 * kpis.rowCount
         THEN "high" ELSE "medium")

\* the index counted from one
enumerate_idx_from_one(i) == i

\* `for idx, row in enumerate(cleaned_preview)`: idx of the i-th row
enumerate_idx(i) == i - 1

_generate_outlier_insight(kpis, insight_id) ==
  LET k == FirstIndex([i \in DOMAIN kpis.numericStats |->
                         /\ kpis.numericStats[i].min > 0
                         /\ kpis.numericStats[i].max
                              > 10 * kpis.numericStats[i].min])
      stats == kpis.numericStats[k]
      max_row_idx ==
        FirstIndex([i \in DOMAIN kpis.cleanedPreview |->
                      kpis.cleanedPreview[i][stats.col] = stats.max])
      chart == FirstIndex([i \in DOMAIN kpis.chartSpecs |->
                             \/ kpis.chartSpecs[i].y = stats.col
                             \/ kpis.chartSpecs[i].x = stats.col])
  IN  IF k = 0
      THEN NoInsight
      ELSE FallbackInsight(
             GenId(insight_id - 1), "outlier", "medium", <<stats.col>>,
             <<stats.max, stats.min, stats.median>>,
             IF max_row_idx = 0 THEN <<>>
             ELSE <<enumerate_idx(max_row_idx)>>,
             IF chart = 0 THEN "null" ELSE kpis.chartSpecs[chart].id,
             "analyst", "medium")

Abs(x) == IF x < 0 THEN -x ELSE x

_generate_correlation_insight(compact_eda, insight_id) ==
  LET k == FirstIndex([i \in DOMAIN compact_eda.correlations |->
                         Abs(compact_eda.correlations[i].r) > 70])
      corr == compact_eda.correlations[k]
      cols == {corr.col1, corr.col2}
      chart == FirstIndex([i \in DOMAIN compact_eda.chartSpecs |->
                             /\ compact_eda.chartSpecs[i].x \in cols
                             /\ compact_eda.chartSpecs[i].y \in cols])
  IN  IF k = 0
      THEN NoInsight
      ELSE FallbackInsight(
             GenId(insight_id - 1), "correlation", "low",
             <<IF Abs(corr.r) > 90 THEN "very strong" ELSE "strong",
               IF corr.r > 0 THEN "positive" ELSE "negative",
               corr.col1, corr.col2>>,
             <<corr.r>>, <<>>,
             IF chart = 0 THEN "null" ELSE compact_eda.chartSpecs[chart].id,
             "data_scientist", "medium")

_generate_business_summary(kpis, insight_count) ==
  [rows |-> kpis.rowCount, cols |-> kpis.columnCount,
   insights |-> insight_count,
   excellent |-> kpis.missingCells = 0 /\ kpis.duplicateRows = 0,
   issues |-> (IF kpis.missingCells > 0 THEN <<kpis.missingCells>> ELSE <<>>)
              \o (IF kpis.duplicateRows > 0
                  THEN <<kpis.duplicateRows>> ELSE <<>>)]

\* max(0, int(100 - min(2 missing_pct, 40) - min(2 duplicate_pct, 30)))
_calculate_quality_score(kpis) ==
  LET total_cells == kpis.rowCount * kpis.columnCount
      score ==
        (100 * total_cells
         - Min(200 * kpis.missingCells, 40 * total_cells)
         - Min(200 * kpis.duplicateRows * kpis.columnCount, 30 * total_cells))
        \div total_cells
  IN  IF kpis.rowCount = 0 \/ kpis.columnCount = 0
      THEN 0
      ELSE IF 0 >= score THEN 0 ELSE score

\* time.time() in place of the constant
meta_timestamp_now == now
\* "timestamp": 0
meta_timestamp == 0

\* insights gets what a generator returns unless it is None
Appended(insights, insight) ==
  IF insight = NoInsight THEN insights ELSE Append(insights, insight)

\* the counter never incremented
insight_counter_fixed(insights) == 1
\* insight_counter: 1, incremented with every insight appended
insight_counter(insights) == Len(insights) + 1

generate_fallback_insights(compact_eda) ==
  LET i1 == Appended(<<>>, _generate_missing_data_insight(
                             compact_eda, insight_counter(<<>>)))
      i2 == Appended(i1, _generate_duplicate_insight(
                           compact_eda, insight_counter(i1)))
      i3 == Appended(i2, _generate_outlier_insight(
                           compact_eda, insight_counter(i2)))
      insights == Appended(i3, _generate_correlation_insight(
                                 compact_eda, insight_counter(i3)))
  IN  [analystInsights |-> insights,
       businessSummary |->
         _generate_business_summary(compact_eda, Len(insights)),
       metadata |-> [total_insights |-> Len(insights),
                     confidence |-> "low",
                     data_quality_score |->
                       _calculate_quality_score(compact_eda),
                     analysis_timestamp |-> ""],
       issues |-> <<"llm_fallback_used">>,
       _meta |-> [model |-> "fallback-deterministic",
                  latency_seconds |-> 0,
                  timestamp |-> meta_timestamp]]

\* a call: its argument, the time it was made at, the calls made before it
\* and what it returned
FallbackCall(facts) ==
  [made |-> TRUE, facts |-> facts, at |-> now, before |-> fcount,
   bundle |-> generate_fallback_insights(facts)]

\* no call yet: nothing is read of it but `made`
NoCall == [made |-> FALSE, facts |-> <<>>, at |-> 0, before |-> 0,
           bundle |-> <<>>]

FallbackIdle ==
  /\ fa = NoCall
  /\ fb = NoCall
  /\ fcount = 0

\* generate_fallback_insights(compact_eda): observed as the earlier or the
\* later of the two calls compared (calls with the same argument), or made
\* between them
fallback_call(compact_eda, observed) ==
  /\ fcount < MaxCalls
  /\ fcount' = fcount + 1
  /\ IF observed = "first"
     THEN /\ ~fa.made
          /\ fa' = FallbackCall(compact_eda)
          /\ fb' = fb
     ELSE IF observed = "second"
     THEN /\ fa.made /\ ~fb.made
          /\ compact_eda = fa.facts
          /\ fb' = FallbackCall(compact_eda)
          /\ fa' = fa
     ELSE /\ fa.made /\ ~fb.made
          /\ UNCHANGED <<fa, fb>>
  /\ UNCHANGED <<jobVars, llmVars, retryVars, validatorVars, moreVars>>

(***************************************************************************)
(* Part 6: the breaker functions of lib/llm_client.py (the same text in    *)
(* lib/llm_client_fewshot.py) run by two threads of one process.  The      *)
(* module-level dict _circuit_breaker_state is shared and the functions    *)
(* take no lock, so a thread may be preempted between any two statements,  *)
(* and between building the filtered list and storing it.                  *)
(***************************************************************************)
Threads == {1, 2}

\* the timestamps recorded while the threads run
MaxFailures == 2

\* what the orchestration variables other than cb and clock hold
llmRest == <<variant, gpc, gattempt, gresult, gcalls, grecorded, grequests,
             gsince, gcleared, gcheck>>

ThreadsIdle ==
  /\ tpc = [t \in Threads |-> "idle"]
  /\ tnow = [t \in Threads |-> 0]
  /\ tkept = [t \in Threads |-> <<>>]

\* a thread's locals once its function has returned
Returned(locals, t, pc) ==
  IF pc = "idle" THEN [locals EXCEPT ![t] = 0] ELSE locals

\* what no step of a thread changes
threadEnv == <<jobVars, llmRest, clock, retryVars, validatorVars,
               fallbackVars, normVars, poisonVars, signalVars, uploadVars>>

\* _check_circuit_breaker: `current_time = time.time()` and the tests of
\* is_open and of the cooldown; `return True` while the breaker stays open
check_enter(t) ==
  /\ tpc[t] = "idle"
  /\ tpc' = [tpc EXCEPT ![t] =
               IF cb.is_open
               THEN IF cb.opened_at # 0 /\ CooldownElapsed(cb.opened_at, clock)
                    THEN "close_is_open" ELSE "idle"
               ELSE "filter"]
  /\ tnow' = Returned([tnow EXCEPT ![t] = clock], t, tpc'[t])
  /\ UNCHANGED <<threadEnv, cb, tkept>>

\* the three assignments that close the breaker, one statement a step
check_close(t) ==
  /\ tpc[t] \in {"close_is_open", "close_opened_at", "close_failures"}
  /\ IF tpc[t] = "close_is_open"
     THEN /\ cb' = [cb EXCEPT !.is_open = FALSE]
          /\ tpc' = [tpc EXCEPT ![t] = "close_opened_at"]
     ELSE IF tpc[t] = "close_opened_at"
     THEN /\ cb' = [cb EXCEPT !.opened_at = 0]
          /\ tpc' = [tpc EXCEPT ![t] = "close_failures"]
     ELSE /\ cb' = [cb EXCEPT !.failures = <<>>]
          /\ tpc' = [tpc EXCEPT ![t] = "idle"]
  /\ tnow' = Returned(tnow, t, tpc'[t])
  /\ UNCHANGED <<threadEnv, tkept>>

\* the list comprehension `[ts for ts in failures if ts >= window_start]`
check_filter(t) ==
  /\ tpc[t] = "filter"
  /\ tkept' = [tkept EXCEPT ![t] =
                 SelectSeq(cb.failures, LAMBDA ts : InWindow(ts, tnow[t]))]
  /\ tpc' = [tpc EXCEPT ![t] = "assign"]
  /\ UNCHANGED <<threadEnv, cb, tnow>>

\* `_circuit_breaker_state['failures'] = <the list built>`
check_assign(t) ==
  /\ tpc[t] = "assign"
  /\ cb' = [cb EXCEPT !.failures = tkept[t]]
  /\ tkept' = [tkept EXCEPT ![t] = <<>>]
  /\ tpc' = [tpc EXCEPT ![t] = "threshold"]
  /\ UNCHANGED <<threadEnv, tnow>>

\* `if len(failures) >= LLM_CIRCUIT_THRESHOLD`, else `return False`
check_threshold(t) ==
  /\ tpc[t] = "threshold"
  /\ tpc' = [tpc EXCEPT ![t] =
               IF ThresholdReached(Len(cb.failures))
               THEN "open_is_open" ELSE "idle"]
  /\ tnow' = Returned(tnow, t, tpc'[t])
  /\ UNCHANGED <<threadEnv, cb, tkept>>

\* the two assignments that open the breaker
check_open(t) ==
  /\ tpc[t] \in {"open_is_open", "open_opened_at"}
  /\ IF tpc[t] = "open_is_open"
     THEN /\ cb' = [cb EXCEPT !.is_open = TRUE]
          /\ tpc' = [tpc EXCEPT ![t] = "open_opened_at"]
     ELSE /\ cb' = [cb EXCEPT !.opened_at = tnow[t]]
          /\ tpc' = [tpc EXCEPT ![t] = "idle"]
  /\ tnow' = Returned(tnow, t, tpc'[t])
  /\ UNCHANGED <<threadEnv, tkept>>

\* _record_llm_failure: `failures.append(time.time())`
record_failure(t) ==
  /\ tpc[t] = "idle"
  /\ Len(cb.failures) < MaxFailures
  /\ cb' = _record_llm_failure(cb, clock)
  /\ UNCHANGED <<threadEnv, threadVars>>

\* _record_llm_success: the test `if failures:`
record_success_test(t) ==
  /\ tpc[t] = "idle"
  /\ cb.failures # <<>>
  /\ tpc' = [tpc EXCEPT ![t] = "clear"]
  /\ UNCHANGED <<threadEnv, cb, tnow, tkept>>

\* _record_llm_success: `failures = []`
record_success_clear(t) ==
  /\ tpc[t] = "clear"
  /\ cb' = [cb EXCEPT !.failures = <<>>]
  /\ tpc' = [tpc EXCEPT ![t] = "idle"]
  /\ UNCHANGED <<threadEnv, tnow, tkept>>

(***************************************************************************)
(* Part 7: _normalize_value of lib/insight_validator.py on its own.  The   *)
(* canonical vocabulary is a Python set of strings; the order in which a   *)
(* `for` loop goes through it follows the strings' hashes, which each      *)
(* interpreter seeds anew (PYTHONHASHSEED), so it is fixed within one      *)
(* process and any permutation across processes.  A raw value is its text  *)
(* together with what str(value).lower().strip() compares to: the          *)
(* canonical value it equals, and the canonical values that contain it or  *)
(* are contained in it.                                                    *)
(***************************************************************************)
CANONICAL_SEVERITY == {"high", "medium", "low"}

\* the orders in which a process may iterate the set
IterationOrders ==
  {o \in [1..3 -> CANONICAL_SEVERITY] : \A i, j \in 1..3 : o[i] = o[j] => i = j}

NormValue(text, falsy, exact, near) ==
  [text |-> text, falsy |-> falsy, exact |-> exact, near |-> near]

\* the raw values tried: empty, an exact match but for case and blanks, no
\* match, one substring match, two substring matches (the value contains
\* two canonical values; the value is contained in two)
NormValues ==
  {NormValue("", TRUE, "none", {}),
   NormValue("High ", FALSE, "high", {"high"}),
   NormValue("critical", FALSE, "none", {}),
   NormValue("lowest", FALSE, "none", {"low"}),
   NormValue("medium-high", FALSE, "none", {"medium", "high"}),
   NormValue("i", FALSE, "none", {"high", "medium"})}

\* _normalize_value(value, canonical_set, default), canonical_set given as
\* the sequence in which the loop visits it
_normalize_value(value, canonical_set, default) ==
  IF value.falsy THEN default
  ELSE IF \E i \in DOMAIN canonical_set : canonical_set[i] = value.exact
  THEN value.exact
  ELSE LET k == FirstIndex([i \in DOMAIN canonical_set |->
                              canonical_set[i] \in value.near])
       IN  IF k = 0 THEN default ELSE canonical_set[k]

NoNormCall == [made |-> FALSE, value |-> NormValue("", TRUE, "none", {}),
               result |-> "none"]

NormCall(value) ==
  [made |-> TRUE, value |-> value,
   result |-> _normalize_value(value, norder, "medium")]

NormalizeIdle ==
  /\ norder = <<>>
  /\ na = NoNormCall
  /\ nb = NoNormCall

\* what no step of Part 7 changes
normEnv == <<jobVars, llmVars, retryVars, validatorVars, fallbackVars,
             threadVars, poisonVars, signalVars, uploadVars>>

\* a process starts (the worker, or a restart of it): its interpreter's
\* string hashing decides the iteration order of the set
interpreter_start(order) ==
  /\ norder' = order
  /\ UNCHANGED <<normEnv, na, nb>>

\* a call in the running process, observed as the first or the second of
\* the two calls compared, or not observed
normalize_call(value, observed) ==
  /\ norder # <<>>
  /\ IF observed = "first"
     THEN /\ ~na.made
          /\ na' = NormCall(value)
          /\ nb' = nb
     ELSE IF observed = "second"
     THEN /\ na.made /\ ~nb.made
          /\ nb' = NormCall(value)
          /\ na' = na
     ELSE UNCHANGED <<na, nb>>
  /\ UNCHANGED <<normEnv, norder>>

(***************************************************************************)
(* Part 8: the termination signal and the metrics collector's lock.        *)
(* CPython runs signal_handler in the main thread, between two bytecodes   *)
(* of whatever the main thread is executing; the main thread goes on only  *)
(* when the handler has returned.  MetricsCollector.lock is a              *)
(* threading.Lock: acquiring it blocks while it is held, whoever holds it. *)
(***************************************************************************)

\* the items the worker dequeues
MaxReceived == 2

\* the counters of the collector
Counters == {"jobs_received_total", "jobs_completed_total", "jobs_failed_total"}

\* before run_worker's loop: the lock free, zero counters, no signal
SignalIdle ==
  /\ mholder = "none" /\ mainpc = "loop" /\ mcall = "none"
  /\ mcounters = [c \in Counters |-> 0]
  /\ mcurrent = FALSE /\ sigpc = "none" /\ flushing = FALSE

\* everything except the signal model
signalEnv == <<jobVars, llmVars, retryVars, validatorVars, fallbackVars,
               threadVars, normVars, poisonVars, uploadVars>>

\* the main thread executes its own code (no handler is running)
MainRuns == sigpc \in {"none", "returned"}

\* `while not shutdown_requested:` (shutdown_requested is set by the first
\* statement of the handler)
main_loop ==
  /\ MainRuns /\ mainpc = "loop"
  /\ mainpc' = IF sigpc = "returned" THEN "exit" ELSE "brpop"
  /\ UNCHANGED <<signalEnv, mholder, mcall, mcounters, mcurrent, sigpc,
                 flushing>>

\* r.brpop: no item, or an item: current_job_id = job_id and
\* increment("jobs_received_total") is called
main_brpop(item) ==
  /\ MainRuns /\ mainpc = "brpop"
  /\ IF item /\ mcounters["jobs_received_total"] < MaxReceived
     THEN /\ mcurrent' = TRUE
          /\ mcall' = "jobs_received_total"
          /\ mainpc' = "acquire"
     ELSE /\ mainpc' = "loop"
          /\ UNCHANGED <<mcall, mcurrent>>
  /\ UNCHANGED <<signalEnv, mholder, mcounters, sigpc, flushing>>

\* increment / observe: `with self.lock:` entered
main_acquire ==
  /\ MainRuns /\ mainpc = "acquire"
  /\ mholder = "none"
  /\ mholder' = "main"
  /\ mainpc' = "locked"
  /\ UNCHANGED <<signalEnv, mcall, mcounters, mcurrent, sigpc, flushing>>

\* increment / observe: the body and the end of `with self.lock:`; then
\* the next metric call of the item (the histogram observation, then one
\* outcome counter), or the end of the item (current_job_id = None)
main_release(outcome) ==
  /\ MainRuns /\ mainpc = "locked"
  /\ mholder' = "none"
  /\ mcounters' = IF mcall \in Counters
                  THEN [mcounters EXCEPT ![mcall] = @ + 1]
                  ELSE mcounters
  /\ IF mcall = "jobs_received_total"
     THEN /\ mcall' = "avg_processing_time_seconds"
          /\ mainpc' = "acquire"
          /\ UNCHANGED mcurrent
     ELSE IF mcall = "avg_processing_time_seconds"
     THEN /\ mcall' = outcome
          /\ mainpc' = "acquire"
          /\ UNCHANGED mcurrent
     ELSE /\ mcall' = "none"
          /\ mainpc' = "loop"
          /\ mcurrent' = FALSE
  /\ UNCHANGED <<signalEnv, sigpc, flushing>>

\* SIGINT / SIGTERM delivered: the handler starts in the main thread,
\* wherever that is, sets shutdown_requested and calls flush_metrics
signal_delivered ==
  /\ sigpc = "none" /\ mainpc # "exit"
  /\ sigpc' = "flush"
  /\ UNCHANGED <<signalEnv, mholder, mainpc, mcall, mcounters, mcurrent,
                 flushing>>

\* flush_metrics -> flush -> get_snapshot: `with self.lock:` entered
handler_flush_acquire ==
  /\ sigpc = "flush"
  /\ mholder = "none"
  /\ mholder' = "handler"
  /\ sigpc' = "flush_locked"
  /\ UNCHANGED <<signalEnv, mainpc, mcall, mcounters, mcurrent, flushing>>

\* get_snapshot returns and the snapshot is written; then
\* `if current_job_id:` and the record's status decide whether the handler
\* calls increment("jobs_failed_total")
handler_flush_release(processing) ==
  /\ sigpc = "flush_locked"
  /\ mholder' = "none"
  /\ sigpc' = IF mcurrent /\ processing THEN "increment" ELSE "returned"
  /\ UNCHANGED <<signalEnv, mainpc, mcall, mcounters, mcurrent, flushing>>

\* the handler's increment("jobs_failed_total"): `with self.lock:` entered
handler_increment_acquire ==
  /\ sigpc = "increment"
  /\ mholder = "none"
  /\ mholder' = "handler"
  /\ sigpc' = "increment_locked"
  /\ UNCHANGED <<signalEnv, mainpc, mcall, mcounters, mcurrent, flushing>>

\* the handler's increment ends and the handler returns
handler_increment_release ==
  /\ sigpc = "increment_locked"
  /\ mholder' = "none"
  /\ mcounters' = [mcounters EXCEPT !["jobs_failed_total"] = @ + 1]
  /\ sigpc' = "returned"
  /\ UNCHANGED <<signalEnv, mainpc, mcall, mcurrent, flushing>>

\* the auto-flush thread's flush -> get_snapshot: `with self.lock:` entered
auto_flush_acquire ==
  /\ ~flushing /\ mholder = "none"
  /\ mholder' = "flusher"
  /\ flushing' = TRUE
  /\ UNCHANGED <<signalEnv, mainpc, mcall, mcounters, mcurrent, sigpc>>

\* the auto-flush thread leaves get_snapshot
auto_flush_release ==
  /\ flushing
  /\ mholder' = "none"
  /\ flushing' = FALSE
  /\ UNCHANGED <<signalEnv, mainpc, mcall, mcounters, mcurrent, sigpc>>

\* the steps of the main thread, the handler's included
MainThread ==
  \/ main_loop
  \/ \E item \in BOOLEAN : main_brpop(item)
  \/ main_acquire
  \/ \E outcome \in {"jobs_completed_total", "jobs_failed_total"} :
       main_release(outcome)
  \/ handler_flush_acquire
  \/ \E processing \in BOOLEAN : handler_flush_release(processing)
  \/ handler_increment_acquire
  \/ handler_increment_release

NextSignal ==
  \/ MainThread
  \/ signal_delivered
  \/ auto_flush_acquire
  \/ auto_flush_release

\* what is left idle outside Parts 1 to 5
OthersIdle ==
  /\ ThreadsIdle /\ NormalizeIdle /\ poison = 0 /\ SignalIdle
  /\ uploadAnswer = [j \in Jobs |-> 0]

\* ------------------------------------------------------------ the worker
\* what no step of the worker's main loop changes
envVars == <<fnVars, llmVars, now, shutdown_requested, hpc, hdata, cancelReq,
             pollReq>>

\* _is_job_cancelled: GET and compare the status with 'cancelled'
_is_job_cancelled(j) == _get_job_data(j).status = "cancelled"

\* a payload on data_jobs that json.loads rejects
Undecodable == -1

\* the undecodable payloads pushed
MaxPoison == 1

\* RPUSH data_jobs of such a payload by a client of the Redis server
rpush_undecodable ==
  /\ poison < MaxPoison
  /\ poison' = poison + 1
  /\ queue' = Append(queue, Undecodable)
  /\ UNCHANGED <<llmVars, retryVars, validatorVars, fallbackVars, threadVars,
                 normVars, signalVars, uploadVars, seenCancelled, rec, now,
                 errorJson, shutdown_requested, current_job_id, wpc, wjob, wdata, wcode,
                 wurl, wcount, hpc, hdata, cancelReq, pollReq, metrics>>

\* the exception leaving run_worker
after_item_error_raised == "exited"

\* run_worker's handlers of an error in one item (`except
\* json.JSONDecodeError`, `except Exception`): log, current_job_id = None,
\* and the `while` loop goes on
after_item_error == "loop"

\* BRPOP data_jobs: the element at the right end of the list, and the rest
brpop_item(q) == q[Len(q)]
brpop_rest(q) == SubSeq(q, 1, Len(q) - 1)

\* run_worker: `while not shutdown_requested`
run_worker_loop ==
  /\ hpc = "none" /\ wpc = "loop"
  /\ wpc' = IF shutdown_requested THEN "exited" ELSE "brpop"
  /\ UNCHANGED <<envVars, seenCancelled, rec, queue, errorJson,
                 current_job_id, wjob, wdata, wcode, wurl, wcount, metrics>>

\* run_worker: r.brpop(['data_jobs'], timeout=poll_interval); an item sets
\* current_job_id and counts jobs_received_total, a timeout loops
run_worker_brpop ==
  /\ hpc = "none" /\ wpc = "brpop"
  /\ IF queue = <<>>
     THEN /\ wpc' = "loop"
          /\ UNCHANGED <<queue, current_job_id, wjob, metrics>>
     ELSE IF brpop_item(queue) = Undecodable
     THEN /\ queue' = brpop_rest(queue)
          /\ current_job_id' = None
          /\ wpc' = after_item_error
          /\ UNCHANGED <<wjob, metrics>>
     ELSE /\ queue' = brpop_rest(queue)
          /\ current_job_id' = brpop_item(queue)
          /\ wjob' = brpop_item(queue)
          /\ increment("received", brpop_item(queue))
          /\ wpc' = "dequeued"
  /\ UNCHANGED <<envVars, seenCancelled, rec, errorJson, wdata, wcode, wurl,
                 wcount>>

\* every dequeued item handed to process_job
DequeueSkipsNothing(data) == FALSE
\* run_worker: `if current_status == 'cancelled'` on the record of the item
DequeueSkips(data) == data.status = "cancelled"

\* run_worker: "Check for cancellation before starting"; a cancelled job is
\* skipped (current_job_id = None; continue)
run_worker_check_cancelled ==
  /\ hpc = "none" /\ wpc = "dequeued"
  /\ IF DequeueSkips(_get_job_data(wjob))
     THEN /\ wpc' = "loop" /\ current_job_id' = None /\ wjob' = None
          /\ seenCancelled' = seenCancelled \cup {wjob}
     ELSE /\ wpc' = "pj_start"
          /\ UNCHANGED <<current_job_id, wjob, seenCancelled>>
  /\ UNCHANGED <<envVars, rec, queue, errorJson, wdata, wcode, wurl, wcount,
                 metrics>>

\* a cancellation checkpoint of process_job: return when cancelled
Checkpoint(at, next) ==
  /\ hpc = "none" /\ wpc = at
  /\ wpc' = IF _is_job_cancelled(wjob) THEN "pj_return" ELSE next
  /\ seenCancelled' = IF _is_job_cancelled(wjob)
                      THEN seenCancelled \cup {wjob} ELSE seenCancelled
  /\ UNCHANGED <<envVars, rec, queue, errorJson, current_job_id, wjob, wdata,
                 wcode, wurl, wcount, metrics>>

\* process_job: "Check for cancellation before starting"
process_job_check_before == Checkpoint("pj_start", "upd_get")

\* _update_job_status(.., 'processing'): GET
_update_job_status_get ==
  /\ hpc = "none" /\ wpc = "upd_get"
  /\ wdata' = _get_job_data(wjob)
  /\ wpc' = "upd_set"
  /\ UNCHANGED <<envVars, seenCancelled, rec, queue, errorJson,
                 current_job_id, wjob, wcode, wurl, wcount, metrics>>

\* _update_job_status(.., 'processing'): SET
_update_job_status_set ==
  /\ hpc = "none" /\ wpc = "upd_set"
  /\ rec' = [rec EXCEPT ![wjob] = [wdata EXCEPT !.status = "processing"]]
  /\ wdata' = NoRec
  /\ wpc' = "pj_parse"
  /\ UNCHANGED <<envVars, seenCancelled, queue, errorJson, current_job_id,
                 wjob, wcode, wurl, wcount, metrics>>

\* process_job steps 2 and 3: storage.ensure_local_path raises into the
\* outer handler; a parsing error is only appended to issues
process_job_parse ==
  /\ hpc = "none" /\ wpc = "pj_parse"
  /\ \E fileOk \in BOOLEAN :
       wpc' = IF fileOk THEN "pj_after_parse" ELSE "pj_except"
  /\ UNCHANGED <<envVars, seenCancelled, rec, queue, errorJson,
                 current_job_id, wjob, wdata, wcode, wurl, wcount, metrics>>

\* process_job: "Check for cancellation and timeout after parsing"
process_job_check_after_parse == Checkpoint("pj_after_parse", "pj_timeout")

\* the decision of _check_timeout on the data it read
WorkerTimesOut(data, t) == TimedOut(data, t)

\* _check_timeout: GET, compare now with timeoutAt; past it the job goes to
\* _fail_job_with_error_json(.., "timeout")
_check_timeout ==
  /\ hpc = "none" /\ wpc = "pj_timeout"
  /\ IF WorkerTimesOut(_get_job_data(wjob), now)
     THEN wpc' = "fail_get" /\ wcode' = "timeout"
     ELSE wpc' = "pj_parsed" /\ UNCHANGED wcode
  /\ UNCHANGED <<envVars, seenCancelled, rec, queue, errorJson,
                 current_job_id, wjob, wdata, wurl, wcount, metrics>>

\* process_job: without a DataFrame save the non-tabular result and complete
\* (a failed save raises); with one go on to the next checkpoint
process_job_parsed ==
  /\ hpc = "none" /\ wpc = "pj_parsed"
  /\ \E tabular \in BOOLEAN, saveOk \in BOOLEAN :
       /\ wpc' = IF tabular THEN "pj_before_analysis"
                 ELSE IF saveOk THEN "complete_get" ELSE "pj_except"
       /\ wcount' = FALSE
  /\ UNCHANGED <<envVars, seenCancelled, rec, queue, errorJson,
                 current_job_id, wjob, wdata, wcode, wurl, metrics>>

\* process_job: "Check again before analysis"
process_job_check_before_analysis ==
  Checkpoint("pj_before_analysis", "pj_analysis")

\* process_job step 4: the EDA calls, which may raise
process_job_analysis ==
  /\ hpc = "none" /\ wpc = "pj_analysis"
  /\ \E ok \in BOOLEAN : wpc' = IF ok THEN "pj_llm" ELSE "pj_except"
  /\ UNCHANGED <<envVars, seenCancelled, rec, queue, errorJson,
                 current_job_id, wjob, wdata, wcode, wurl, wcount, metrics>>

\* process_job: llm_client.generate_insights; an exception is re-raised
process_job_llm ==
  /\ hpc = "none" /\ wpc = "pj_llm"
  /\ wpc' = IF generate_insights_raises THEN "pj_except" ELSE "pj_save"
  /\ UNCHANGED <<envVars, seenCancelled, rec, queue, errorJson,
                 current_job_id, wjob, wdata, wcode, wurl, wcount, metrics>>

\* process_job steps 5 and 6: transform_to_ui and save result.json, either
\* of which may raise
process_job_save ==
  /\ hpc = "none" /\ wpc = "pj_save"
  /\ \E ok \in BOOLEAN :
       /\ wpc' = IF ok THEN "complete_get" ELSE "pj_except"
       /\ wcount' = ok
  /\ UNCHANGED <<envVars, seenCancelled, rec, queue, errorJson,
                 current_job_id, wjob, wdata, wcode, wurl, metrics>>

\* _complete_job: GET
_complete_job_get ==
  /\ hpc = "none" /\ wpc = "complete_get"
  /\ wdata' = _get_job_data(wjob)
  /\ wpc' = "complete_set"
  /\ UNCHANGED <<envVars, seenCancelled, rec, queue, errorJson,
                 current_job_id, wjob, wcode, wurl, wcount, metrics>>

\* _complete_job: SET completed with the resultUrl; on the tabular path
\* process_job then increments jobs_completed_total
_complete_job_set ==
  /\ hpc = "none" /\ wpc = "complete_set"
  /\ rec' = [rec EXCEPT ![wjob] =
               [wdata EXCEPT !.status = "completed", !.resultUrl = "result"]]
  /\ IF wcount THEN increment("completed", wjob) ELSE UNCHANGED metrics
  /\ wdata' = NoRec
  /\ wcount' = FALSE
  /\ wpc' = "pj_return"
  /\ UNCHANGED <<envVars, seenCancelled, queue, errorJson, current_job_id,
                 wjob, wcode, wurl>>

\* process_job's `except Exception`: a job found cancelled is left alone,
\* any other goes to _fail_job_with_error_json(.., "processing_error")
process_job_except ==
  /\ hpc = "none" /\ wpc = "pj_except"
  /\ IF _is_job_cancelled(wjob)
     THEN /\ wpc' = "pj_return"
          /\ seenCancelled' = seenCancelled \cup {wjob}
          /\ UNCHANGED wcode
     ELSE /\ wpc' = "fail_get" /\ wcode' = "processing_error"
          /\ UNCHANGED seenCancelled
  /\ wcount' = FALSE
  /\ UNCHANGED <<envVars, rec, queue, errorJson, current_job_id, wjob, wdata,
                 wurl, metrics>>

\* _fail_job_with_error_json: save error.json (a failed save leaves
\* error_url None), then GET
_fail_job_with_error_json_get ==
  /\ hpc = "none" /\ wpc = "fail_get"
  /\ \E saved \in BOOLEAN :
       /\ errorJson' = IF saved THEN [errorJson EXCEPT ![wjob] = wcode]
                       ELSE errorJson
       /\ wurl' = saved
  /\ wdata' = _get_job_data(wjob)
  /\ wpc' = "fail_set"
  /\ UNCHANGED <<envVars, seenCancelled, rec, queue, current_job_id, wjob,
                 wcode, wcount, metrics>>

\* _fail_job_with_error_json: SET failed with error_code, errorMessage and
\* (when error.json was saved) resultUrl; the caller then increments
\* jobs_failed_total
_fail_job_with_error_json_set ==
  /\ hpc = "none" /\ wpc = "fail_set"
  /\ rec' = [rec EXCEPT ![wjob] =
               [wdata EXCEPT !.status = "failed", !.error = wcode,
                             !.errorMessage = TRUE,
                             !.resultUrl = IF wurl THEN "error_json" ELSE @]]
  /\ increment("failed", wjob)
  /\ wdata' = NoRec
  /\ wcode' = "none"
  /\ wurl' = FALSE
  /\ wpc' = "pj_return"
  /\ UNCHANGED <<envVars, seenCancelled, queue, errorJson, current_job_id,
                 wjob, wcount>>

\* run_worker after process_job returned: current_job_id = None
run_worker_job_done ==
  /\ hpc = "none" /\ wpc = "pj_return"
  /\ current_job_id' = None
  /\ wjob' = None
  /\ wpc' = "loop"
  /\ UNCHANGED <<envVars, seenCancelled, rec, queue, errorJson, wdata, wcode,
                 wurl, wcount, metrics>>

Worker ==
  \/ run_worker_loop
  \/ run_worker_brpop
  \/ run_worker_check_cancelled
  \/ process_job_check_before
  \/ _update_job_status_get
  \/ _update_job_status_set
  \/ process_job_parse
  \/ process_job_check_after_parse
  \/ _check_timeout
  \/ process_job_parsed
  \/ process_job_check_before_analysis
  \/ process_job_analysis
  \/ process_job_llm
  \/ process_job_save
  \/ _complete_job_get
  \/ _complete_job_set
  \/ process_job_except
  \/ _fail_job_with_error_json_get
  \/ _fail_job_with_error_json_set
  \/ run_worker_job_done

vars == <<jobVars, llmVars, fnVars>>

\* the worker process: llm_client is the module process_job calls
Init ==
  JobInit /\ LLMInit /\ RetryIdle /\ ValidatorIdle /\ FallbackIdle
  /\ OthersIdle
  /\ variant = "llm_client"

Next ==
  \/ Tick
  \/ \E j \in Jobs, pushed \in BOOLEAN : upload_handler(j, pushed)
  \/ \E j \in Jobs : cancel_job_get(j)
  \/ cancel_job_set
  \/ \E j \in Jobs : get_job_status_get(j)
  \/ get_job_status_set
  \/ signal_handler
  \/ signal_handler_set
  \/ Worker

Spec == Init /\ [][Next]_vars

\* The record of a finished job that no queue item, worker or request refers
\* to any more leaves the store (the cleaner's DEL of old job:<id> keys, or
\* the key's JOB_TTL_HOURS expiry).  Identifiers are unique per upload, so in
\* the model the identifier of a deleted record stands for a fresh one.
Retire(j) ==
  /\ rec[j].status \in Terminal
  /\ \A i \in DOMAIN queue : queue[i] # j
  /\ wjob # j /\ current_job_id # j
  /\ cancelReq.job # j /\ pollReq.job # j
  /\ rec' = [rec EXCEPT ![j] = NoRec]
  /\ errorJson' = [errorJson EXCEPT ![j] = "none"]
  /\ metrics' = [metrics EXCEPT ![j] = NoCounts]
  /\ seenCancelled' = seenCancelled \ {j}
  /\ UNCHANGED <<fnVars, llmVars, queue, now, shutdown_requested,
                 current_job_id, wpc, wjob, wdata, wcode, wurl, wcount, hpc,
                 hdata, cancelReq, pollReq>>

\* The engine under sustained load: the worker keeps running (no signal is
\* delivered), every Redis and storage call returns (every RPUSH succeeds),
\* and uploads keep arriving.
NextSustained ==
  \/ Tick
  \/ \E j \in Jobs : upload_handler(j, TRUE)
  \/ \E j \in Jobs : cancel_job_get(j)
  \/ cancel_job_set
  \/ \E j \in Jobs : get_job_status_get(j)
  \/ get_job_status_set
  \/ \E j \in Jobs : Retire(j)
  \/ Worker

\* the worker's main thread always takes its next step (BRPOP returns after
\* poll_interval at the latest); requests arrive as they please
SpecSustained == Init /\ [][NextSustained]_vars /\ WF_vars(Worker)

\* the worker with jobs that fail and payloads that do not decode; the
\* interpreter keeps running the main thread
NextPoison ==
  \/ Tick
  \/ \E j \in Jobs : upload_handler(j, TRUE)
  \/ \E j \in Jobs : cancel_job_get(j)
  \/ cancel_job_set
  \/ rpush_undecodable
  \/ Worker

SpecPoison == Init /\ [][NextPoison]_vars /\ WF_vars(Worker)

\* the worker process under a signal: the interpreter keeps running both
\* threads, and a thread waiting for a lock that is free again and again
\* gets it
SpecSignal ==
  /\ Init /\ [][NextSignal]_vars
  /\ SF_vars(MainThread) /\ WF_vars(auto_flush_release)

\* a process calling the insight orchestration of either module
InitLLM ==
  JobInit /\ LLMInit /\ RetryIdle /\ ValidatorIdle /\ FallbackIdle
  /\ OthersIdle
  /\ variant \in Variants

NextLLM ==
  \/ ClockTick
  \/ \E mock \in BOOLEAN, apiKey \in BOOLEAN, promptOk \in BOOLEAN :
       orchestration_begin(mock, apiKey, promptOk)
  \/ \E o \in Outcomes : orchestration_attempt(o)
  \/ \E o \in Outcomes : fewshot_fix_attempt(o)

SpecLLM == InitLLM /\ [][NextLLM]_vars

\* a caller of lib/retry.py
NextRetry ==
  \/ \E f \in RetryFns, a \in RetryArgs : retry_call(f, a)
  \/ \E o \in FnOutcomes, jitter \in Jitters : retry_attempt(o, jitter)

SpecRetry == Init /\ [][NextRetry]_vars

\* ------------------------------------------- insight_validator.py on its own
InitValidator ==
  JobInit /\ LLMInit /\ RetryIdle /\ ValidatorInit /\ FallbackIdle
  /\ OthersIdle
  /\ variant = "llm_client"

NextValidator ==
  \/ validator_call
  \/ validator_recall

SpecValidator == InitValidator /\ [][NextValidator]_vars

\* ------------------------------------------ fallback_generator.py on its own
\* the first observed call has any argument; the second has the same, and
\* so have the calls in between, whose results nothing reads
NextFallback ==
  \/ Tick
  \/ \E facts \in FallbackFacts : fallback_call(facts, "first")
  \/ \E observed \in {"second", "no"} : fallback_call(fa.facts, observed)

SpecFallback == Init /\ [][NextFallback]_vars

\* ------------------------------------- two threads in the breaker functions
NextThreads ==
  \/ ClockTick
  \/ \E t \in Threads :
       \/ check_enter(t)
       \/ check_close(t)
       \/ check_filter(t)
       \/ check_assign(t)
       \/ check_threshold(t)
       \/ check_open(t)
       \/ record_failure(t)
       \/ record_success_test(t)
       \/ record_success_clear(t)

SpecThreads == Init /\ [][NextThreads]_vars

\* ------------------------------------------------ _normalize_value on its own
NextNormalize ==
  \/ \E order \in IterationOrders : interpreter_start(order)
  \/ \E value \in NormValues, observed \in {"first", "second", "no"} :
       normalize_call(value, observed)

SpecNormalize == Init /\ [][NextNormalize]_vars

(***************************************************************************)
(* Properties of the job engine                                            *)
(***************************************************************************)

\* C1: once a record's status is completed, failed or cancelled, no later
\* write changes it to a different terminal status or back to a
\* non-terminal one.
C1_TerminalStatusIsSticky ==
  [][\A j \in Jobs :
       rec[j].status \in Terminal => rec'[j].status = rec[j].status]_vars

\* C2: once a worker checkpoint has read a job's record as cancelled, the
\* record's status stays cancelled: it never becomes completed or failed.
C2_CancelledSeenStaysCancelled ==
  \A j \in seenCancelled : rec[j].status = "cancelled"

\* a worker timeout check or a status poll writes failed / timeout to job j
WritesTimeoutFailure(j) ==
  \/ /\ wpc = "fail_set" /\ wpc' = "pj_return"
     /\ wjob = j /\ wcode = "timeout"
  \/ /\ pollReq.job = j /\ pollReq' = NoReq
     /\ rec'[j] # rec[j]

\* C3: while the worker keeps running and Redis and storage calls return,
\* every job upload accepted eventually has a terminal status in its record,
\* a completed record with a resultUrl, a failed one with an error code and
\* an errorMessage.
C3_AcceptedJobsTerminate ==
  \A j \in Jobs :
    (rec[j].status # "none") ~>
      (/\ rec[j].status \in Terminal
       /\ rec[j].status = "completed" => rec[j].resultUrl # "none"
       /\ rec[j].status = "failed" =>
            (rec[j].error # "none" /\ rec[j].errorMessage))

\* C4: status failed with error timeout is written by a worker timeout check
\* or a status poll only when the time is past timeoutAt and the record's
\* status is processing; never onto a cancelled, completed or failed record.
C4_TimeoutOnlyOntoProcessing ==
  [][\A j \in Jobs :
       WritesTimeoutFailure(j) =>
         /\ rec'[j].status = "failed" /\ rec'[j].error = "timeout"
         /\ rec[j].status = "processing"
         /\ now > rec[j].timeoutAt]_vars

\* C5: a status poll that read a processing record and finds timeoutAt
\* passed rewrites the record to failed / timeout, whatever the worker is
\* doing; a poll of a record in any other status, or whose timeoutAt has not
\* passed, writes nothing.
C5_PollReconcilesStaleProcessing ==
  [][/\ (pollReq = NoReq /\ pollReq' # NoReq) =>
          /\ rec' = rec
          /\ pollReq'.data = rec[pollReq'.job]
     /\ (pollReq # NoReq /\ pollReq' = NoReq) =>
          IF pollReq.data.status = "processing"
             /\ now > pollReq.data.timeoutAt
          THEN /\ rec'[pollReq.job].status = "failed"
               /\ rec'[pollReq.job].error = "timeout"
               /\ rec'[pollReq.job].errorMessage
               /\ \A k \in Jobs \ {pollReq.job} : rec'[k] = rec[k]
          ELSE rec' = rec]_vars

\* C5 witness: a poll has failed the job with timeout while the worker is
\* still between its start and its own timeout check
C5_Witness ==
  \E j \in Jobs :
    /\ wjob = j /\ wpc \in {"pj_parse", "pj_after_parse"}
    /\ rec[j].status = "failed" /\ rec[j].error = "timeout"

\* C6: the worker dequeues jobs in the order upload enqueued them: the item
\* it takes is the one pushed earliest among those waiting.
C6_DequeueIsFifo ==
  [][(wpc = "brpop" /\ wpc' = "dequeued") => wjob' = Head(queue)]_vars

\* C7: once the shutdown handler has written failed / worker_shutdown, the
\* interrupted process_job does not change the record's status or error.
C7_ShutdownOutcomeIsFinal ==
  [][\A j \in Jobs :
       (/\ rec[j].status = "failed" /\ rec[j].error = "worker_shutdown"
        /\ wpc' # wpc)
       => (rec'[j].status = "failed"
           /\ rec'[j].error = "worker_shutdown")]_vars

\* C8: once the handler has set shutdown_requested (and returned), the
\* worker takes no further item off the queue.
C8_NoDequeueAfterShutdown ==
  [][shutdown_requested => ~(wpc = "brpop" /\ wpc' = "dequeued")]_vars

(***************************************************************************)
(* Properties of the insight orchestration                                 *)
(***************************************************************************)

FailuresInWindow(s, t) ==
  {i \in DOMAIN s.failures : t - s.failures[i] <= LLM_CIRCUIT_WINDOW}

\* a step that makes the breaker check: a call's start outside mock mode
BreakerCheckStep ==
  gpc = "idle" /\ clock' = clock /\ gresult' # "mock"

\* C10: the breaker goes from closed to open exactly at a breaker check
\* that finds at least LLM_CIRCUIT_THRESHOLD recorded failures within the
\* trailing LLM_CIRCUIT_WINDOW seconds; older failures do not count.
C10_BreakerOpensIffThresholdInWindow ==
  [][(~cb.is_open /\ cb'.is_open) <=>
       (/\ BreakerCheckStep
        /\ ~cb.is_open
        /\ Cardinality(FailuresInWindow(cb, clock))
             >= LLM_CIRCUIT_THRESHOLD)]_vars

\* C10 witness: the breaker is open on failures that all lie in the window
\* of the check that opened it, the oldest exactly at the window's start
C10_Witness ==
  /\ cb.is_open
  /\ Len(cb.failures) >= LLM_CIRCUIT_THRESHOLD
  /\ cb.failures[1] = cb.opened_at - LLM_CIRCUIT_WINDOW

\* C11: an open breaker reports open (and stays as it is) at every check
\* made while now - opened_at < LLM_CIRCUIT_COOLDOWN; the first check with
\* now - opened_at >= LLM_CIRCUIT_COOLDOWN closes it, clears opened_at and
\* the failure history, and lets that same call through (which then goes to
\* the external service, or for want of a key or prompt records its own
\* failure and returns the fallback).
C11_BreakerClosesExactlyAfterCooldown ==
  [][(BreakerCheckStep /\ cb.is_open) =>
       IF clock - cb.opened_at < LLM_CIRCUIT_COOLDOWN
       THEN cb' = cb /\ gpc' = "idle"
       ELSE /\ ~cb'.is_open
            /\ cb'.opened_at = 0
            /\ \/ gpc' = "call" /\ cb'.failures = <<>>
               \/ /\ gpc' = "idle" /\ gresult' = "fallback"
                  /\ cb'.failures = <<clock>>]_vars

\* C11 witness: a check made when the cooldown had elapsed closed the
\* breaker and the call it belongs to is on its way to the service
C11_Witness ==
  /\ gcheck = "closes"
  /\ gpc = "call"
  /\ cb = ClosedBreaker

\* C12: a call whose breaker check finds the breaker open within its
\* cooldown, or finds LLM_CIRCUIT_THRESHOLD failed calls recorded within the
\* window, returns the fallback and sends no request to the service.
C12_OpenBreakerShortCircuits ==
  [][(/\ BreakerCheckStep
      /\ \/ cb.is_open /\ clock - cb.opened_at < LLM_CIRCUIT_COOLDOWN
         \/ /\ ~cb.is_open
            /\ Cardinality(FailuresInWindow(cb, clock))
                 >= LLM_CIRCUIT_THRESHOLD)
     => (/\ gpc' = "idle"
         /\ gresult' = "fallback"
         /\ gcalls' = 0
         /\ grecorded' = 0)]_vars

\* C12 witness: after LLM_CIRCUIT_THRESHOLD failed calls the next call found
\* the threshold reached and returned the fallback without a request
C12_Witness ==
  /\ gcheck = "opens"
  /\ cb.is_open /\ Len(cb.failures) = LLM_CIRCUIT_THRESHOLD
  /\ gpc = "idle" /\ gresult = "fallback" /\ gcalls = 0

(***************************************************************************)
(* Properties of lib/retry.py                                              *)
(***************************************************************************)

\* the errors both functions retry on every attempt: for retry_http_call a
\* status >= 500 or 429 or a network / timeout error without a status, for
\* retry_with_backoff the members of retry_exceptions
AlwaysRetried ==
  IF rfn = "retry_http_call" THEN {"http_500", "http_429", "network"}
  ELSE rargs.retry_exceptions

AuthErrors == {"http_401", "http_403"}

\* C13: fn is invoked at most `attempts` times; the result of the first
\* invocation that succeeds is returned and fn is not invoked again; when
\* every attempt fails with a retryable error, all `attempts` invocations
\* are made and the error of the last one is raised.
C13_RetryBoundedAndRaisesLast ==
  /\ Len(routs) <= rargs.attempts
  /\ \A i \in DOMAIN routs : routs[i] = "ok" => i = Len(routs)
  /\ (routs # <<>> /\ routs[Len(routs)] = "ok") => rresult = "returned"
  /\ rresult = "returned" => (routs # <<>> /\ routs[Len(routs)] = "ok")
  /\ (rresult = "raised" /\ routs # <<>>) => rerror = routs[Len(routs)]
  /\ (/\ rresult # "none" /\ rargs.attempts >= 1
      /\ \A i \in DOMAIN routs : routs[i] \in AlwaysRetried)
     => (/\ Len(routs) = rargs.attempts
         /\ rresult = "raised"
         /\ rerror = routs[rargs.attempts])

\* C13 witness: three attempts failed with different retryable errors and
\* the last one's was raised
C13_Witness ==
  /\ rresult = "raised" /\ Len(routs) = 3
  /\ routs[1] # routs[3] /\ rerror = routs[3]
  /\ \A i \in DOMAIN routs : routs[i] \in AlwaysRetried

\* C14: the sleep before attempt k >= 2 is min(max_delay, initial_delay *
\* factor^(k-2)) times a jitter in [0.9, 1.1], so it is never negative and
\* never above 1.1 * max_delay; there is exactly one sleep between a
\* retryable failure and the attempt after it, and none after the last
\* attempt or after a success.
C14_BackoffDelayWithinJitter ==
  /\ \A k \in 2..(Len(rdelays) + 1) :
       LET base == Min(rargs.max_delay,
                       rargs.initial_delay * Pow(rargs.factor, k - 2))
           d == rdelays[k - 1]
       IN  /\ 9 * base <= d /\ d <= 11 * base
           /\ 0 <= d /\ d <= 11 * rargs.max_delay
           /\ routs[k - 1] \in AlwaysRetried \cup AuthErrors
  /\ Len(rdelays) = IF rresult = "none" \/ routs = <<>> THEN Len(routs)
                    ELSE Len(routs) - 1

\* C14 witness: a finished run slept twice, first the least jittered
\* initial delay, then the most jittered capped delay
C14_Witness ==
  /\ rresult # "none" /\ Len(rdelays) = 2
  /\ rargs.initial_delay * rargs.factor > rargs.max_delay
  /\ rargs.initial_delay < rargs.max_delay
  /\ rdelays[1] = 9 * rargs.initial_delay
  /\ rdelays[2] = 11 * rargs.max_delay

\* the invocations of a retry_http_call run that failed with 401 / 403
AuthFailures == {i \in DOMAIN routs : routs[i] \in AuthErrors}

\* C15: in a finished retry_http_call run with attempts >= 2 the first
\* 401 / 403 failure, on whichever attempt it occurs, is followed by one
\* more invocation of fn if attempts remain, and a second 401 / 403 failure
\* ends the run.
C15_AuthFailureRetriedOnce ==
  (rfn = "retry_http_call" /\ rargs.attempts >= 2 /\ rresult # "none") =>
    \A i \in AuthFailures :
      IF \A h \in AuthFailures : i <= h
      THEN i < rargs.attempts => Len(routs) > i
      ELSE Len(routs) = i /\ rresult = "raised"

\* C16: retry_http_call goes on after a failure only if it has a status
\* >= 500 or 429, or is a network / timeout error without a status, or is a
\* 401 / 403; retry_with_backoff only if it is in retry_exceptions.  Any
\* other failure ends the run at once: its exception is raised, fn is not
\* invoked again and no sleep follows it, however many attempts remain.
C16_OtherFailuresRaiseAtOnce ==
  \A i \in DOMAIN routs :
    (routs[i] # "ok" /\ routs[i] \notin AlwaysRetried
     /\ ~(rfn = "retry_http_call" /\ routs[i] \in AuthErrors))
    => (/\ Len(routs) = i
        /\ rresult = "raised"
        /\ rerror = routs[i]
        /\ Len(rdelays) = i - 1)

\* C16 witness: a 400 on the second of three attempts was raised at once
C16_Witness ==
  /\ rfn = "retry_http_call" /\ rargs.attempts = 3
  /\ Len(routs) = 2 /\ routs[2] = "http_400"
  /\ rresult = "raised" /\ rerror = "http_400" /\ Len(rdelays) = 1

(***************************************************************************)
(* Properties of lib/insight_validator.py                                  *)
(***************************************************************************)

\* C17: when the first call returned an output N with issues I, the call on
\* N with the same facts returns an output equal to N and no issue that is
\* not in I.
C17_ValidateIsIdempotent ==
  vpc = "revalidated" =>
    /\ vsecond.res = "output"
    /\ vsecond.out = vfirst.out
    /\ \A i \in DOMAIN vsecond.issues :
         \E j \in DOMAIN vfirst.issues : vfirst.issues[j] = vsecond.issues[i]

\* the items of the raw analystInsights that are insights
DictItems ==
  SelectSeq(IF vraw.insights_t \in {"list", "dict"}
            THEN vraw.insights ELSE <<>>,
            LAMBDA x : x.t = "dict")

\* the raw row_indices of an insight
RawIndices(x) ==
  IF x.ev_t = "dict" /\ x.ri_t = "list" THEN x.ri ELSE <<>>

\* the entry is an index into the preview
LiesInPreview(e) ==
  e.kind = "int" /\ 0 <= e.val /\ e.val <= vfacts.preview_len - 1

\* the rejected entries of all the insights, in order
RECURSIVE RejectedEntries(_)
RejectedEntries(items) ==
  IF items = <<>> THEN <<>>
  ELSE SelectSeq(RawIndices(Head(items)), LAMBDA e : ~LiesInPreview(e))
       \o RejectedEntries(Tail(items))

RowIndexIssues ==
  SelectSeq(vfirst.issues,
            LAMBDA i : i.kind \in {"row_index_out_of_range",
                                   "row_index_not_integer"})

\* C18: in a returned output every insight of the raw output is kept, its
\* row_indices is the subsequence of its raw row_indices that lie in
\* [0, len(preview)-1], every rejected entry has one issue naming it, and
\* its chart_id is null unless it is the id of a supplied chart spec.
C18_EvidenceReferencesFiltered ==
  (vpc # "input" /\ vfirst.res = "output") =>
    LET out == vfirst.out.analystInsights
        rejected == RejectedEntries(DictItems)
    IN  /\ Len(out) = Len(DictItems)
        /\ \A k \in DOMAIN out :
             LET kept == SelectSeq(RawIndices(DictItems[k]), LiesInPreview)
             IN  /\ out[k].ri = [i \in 1..Len(kept) |-> kept[i].val]
                 /\ out[k].chart \in vfacts.charts \cup {"null"}
        /\ Len(RowIndexIssues) = Len(rejected)
        /\ \A i \in DOMAIN rejected : RowIndexIssues[i].val = rejected[i].val

\* C19: the call returns a pair and raises nothing, whatever the raw output
C19_ValidateNeverRaises ==
  vfirst.res # "raised" /\ vsecond.res # "raised"

\* the items of the raw businessSummary that are kept: `if item`
UsableSummary ==
  SelectSeq(IF vraw.summary_t = "list" THEN vraw.summary ELSE <<>>,
            LAMBDA item : item # "empty")

\* the raw output yields no insight and no non-empty summary item
YieldsNothing ==
  vraw.top # "dict" \/ (DictItems = <<>> /\ UsableSummary = <<>>)

\* C33: validate_and_normalize returns a null output if and only if the raw
\* output yields no insight and no non-empty summary item; otherwise every
\* dict-shaped raw insight appears in the normalized list, in its original
\* order (with its own text, or the replacement for a missing or short
\* one), whatever its evidence references, and metadata.total_insights is
\* the number of normalized insights.
C33_NullIffNothingUsable ==
  vpc # "input" =>
    /\ (vfirst.res = "none") <=> YieldsNothing
    /\ ~YieldsNothing =>
         LET out == vfirst.out.analystInsights IN
         /\ vfirst.res = "output"
         /\ Len(out) = Len(DictItems)
         /\ \A k \in DOMAIN out :
              out[k].text \in {DictItems[k].text, "note"}
         /\ vfirst.out.total_insights = Len(out)

\* C34: field normalization is a function of its input: for a given raw
\* value and canonical vocabulary any two calls of _normalize_value return
\* the same canonical value (the exact match if any, else a substring
\* match, else the default), also when the raw value substring-matches
\* more than one canonical value.
C34_NormalizeIsAFunction ==
  (na.made /\ nb.made /\ na.value = nb.value) =>
    /\ na.result = nb.result
    /\ na.value.falsy => na.result = "medium"
    /\ (~na.value.falsy /\ na.value.exact # "none") =>
         na.result = na.value.exact
    /\ (~na.value.falsy /\ na.value.exact = "none") =>
         IF na.value.near = {} THEN na.result = "medium"
         ELSE na.result \in na.value.near

(***************************************************************************)
(* Properties of lib/fallback_generator.py                                 *)
(***************************************************************************)

Categories(bundle) ==
  [i \in DOMAIN bundle.analystInsights |-> bundle.analystInsights[i].category]

\* the bundle a call returned is as C21 says
OnePerCategory(call) ==
  LET insights == call.bundle.analystInsights
  IN  /\ \A i, j \in DOMAIN insights :
           insights[i].category = insights[j].category => i = j
      /\ \A i \in DOMAIN insights :
           insights[i].category
             \in {"missing_data", "duplicate", "outlier", "correlation"}
      /\ Len(insights) <= 4
      /\ \A i \in DOMAIN insights : insights[i].id = GenId(i - 1)
      /\ call.bundle.metadata.total_insights = Len(insights)

CitedColumns(insight) ==
  IF insight.category = "correlation"
  THEN {insight.cols[3], insight.cols[4]}
  ELSE {insight.cols[k] : k \in DOMAIN insight.cols}

\* the chart spec plots what the insight cites: both columns of a
\* correlation, the column of an outlier on either axis
Plots(chart, insight) ==
  IF insight.category = "correlation"
  THEN chart.x \in CitedColumns(insight) /\ chart.y \in CitedColumns(insight)
  ELSE chart.x \in CitedColumns(insight) \/ chart.y \in CitedColumns(insight)

\* the evidence of the bundle a call returned is as C35 says
EvidenceFromFacts(call) ==
  \A i \in DOMAIN call.bundle.analystInsights :
    LET insight == call.bundle.analystInsights[i]
        preview == call.facts.cleanedPreview
        charts == call.facts.chartSpecs
    IN  /\ \A k \in DOMAIN insight.row_indices :
             LET r == insight.row_indices[k] IN
             /\ 0 <= r /\ r <= Len(preview) - 1
             /\ preview[r + 1][insight.cols[1]] = insight.nums[1]
        /\ insight.chart_id # "null" =>
             \E c \in DOMAIN charts :
               charts[c].id = insight.chart_id /\ Plots(charts[c], insight)

\* C35: every evidence reference of a fallback insight is taken from the
\* supplied facts: each row index is a valid index into the supplied preview
\* whose row holds the cited value (the column's maximum), and each
\* non-null chart_id is the id of a supplied chart spec that plots the
\* cited column(s).
C35_EvidenceTakenFromFacts ==
  /\ fa.made => EvidenceFromFacts(fa)
  /\ fb.made => EvidenceFromFacts(fb)

\* C35 witness: the maximum is in the second preview row only and the
\* second chart spec is the one plotting the columns; the outlier insight
\* cites row index 1 and, like the correlation insight, that chart
C35_Witness ==
  /\ fa.made
  /\ fa.facts.cleanedPreview[1].a = 5
  /\ Len(fa.facts.chartSpecs) = 2
  /\ \E i, j \in DOMAIN fa.bundle.analystInsights :
       /\ fa.bundle.analystInsights[i].category = "outlier"
       /\ fa.bundle.analystInsights[i].row_indices = <<1>>
       /\ fa.bundle.analystInsights[i].chart_id = "chart_1"
       /\ fa.bundle.analystInsights[j].category = "correlation"
       /\ fa.bundle.analystInsights[j].chart_id = "chart_1"

\* the bundle has an insight of the category
HasInsight(call, category) ==
  \E i \in DOMAIN call.bundle.analystInsights :
    call.bundle.analystInsights[i].category = category

\* C36: a missing-data insight is produced only when the missing cells are
\* strictly more than 1% of the cells, and a duplicate-rows insight only
\* when the duplicate rows are strictly more than 1% of the rows; at
\* exactly 1% no such insight is produced.
C36_ThresholdsAreStrict ==
  fa.made =>
    /\ HasInsight(fa, "missing_data") =>
         100 * fa.facts.missingCells
           > fa.facts.rowCount * fa.facts.columnCount
    /\ HasInsight(fa, "duplicate") =>
         100 * fa.facts.duplicateRows > fa.facts.rowCount

(***************************************************************************)
(* Further properties of the job engine                                    *)
(***************************************************************************)

\* C22: in every persisted record resultUrl is present only if the status is
\* completed, error and errorMessage only if it is failed, and cancelledAt
\* only if it is cancelled.
C22_OutcomeFieldsAgreeWithStatus ==
  \A j \in Jobs :
    /\ rec[j].resultUrl # "none" => rec[j].status = "completed"
    /\ (rec[j].error # "none" \/ rec[j].errorMessage)
         => rec[j].status = "failed"
    /\ rec[j].cancelledAt => rec[j].status = "cancelled"

\* the answer cancel_job gives for the record of job j as it is now
AnswerFor(j) == cancel_job_answer(_get_job_data(j))

\* C23: for a record read as completed or failed cancel_job answers with an
\* error and writes nothing; read as cancelled it answers 200 and writes
\* nothing, so cancelledAt stays; read as submitted or processing it writes
\* the record it read with status cancelled and cancelledAt; for an unknown
\* job it answers 404 and no record appears.
C23_CancelJobAnswers ==
  /\ [](\A j \in Jobs :
         /\ rec[j].status \in {"completed", "failed"}
              => AnswerFor(j).code = 400 /\ ~AnswerFor(j).write
         /\ rec[j].status = "cancelled"
              => AnswerFor(j).code = 200 /\ ~AnswerFor(j).write
         /\ rec[j].status \in {"submitted", "processing"}
              => AnswerFor(j).code = 200 /\ AnswerFor(j).write
         /\ rec[j].status = "none"
              => AnswerFor(j).code = 404 /\ ~AnswerFor(j).write)
  /\ [][/\ cancelReq' # cancelReq => \A j \in Jobs :
              /\ (cancelReq = NoReq /\ cancelReq'.job = j) =>
                    /\ AnswerFor(j).write
                    /\ cancelReq'.data = rec[j]
                    /\ rec' = rec
              /\ (cancelReq.job = j /\ cancelReq' = NoReq) =>
                    /\ rec'[j] = [cancelReq.data EXCEPT
                                    !.status = "cancelled",
                                    !.cancelledAt = TRUE]
                    /\ \A k \in Jobs \ {j} : rec'[k] = rec[k]
       /\ cancelReq' = cancelReq => \A j \in Jobs :
              (rec[j].status = "none" /\ rec'[j].status # "none")
                => (rec'[j].status = "submitted" /\ ~rec'[j].cancelledAt)
      ]_vars

\* C23 witness: a cancel has written a record while the other job's record
\* is completed, and no cancel is in flight
C23_Witness ==
  /\ cancelReq = NoReq
  /\ \E j, k \in Jobs :
       /\ rec[j].status = "cancelled" /\ rec[j].cancelledAt
       /\ rec[k].status = "completed"

\* C24: whenever a record is written with status failed, an error.json
\* carrying the record's error code is stored for that job.
C24_FailedHasErrorJson ==
  [][\A j \in Jobs :
       (rec'[j] # rec[j] /\ rec'[j].status = "failed")
         => errorJson'[j] = rec'[j].error]_vars

\* C25: when the external insight-generation call returns and the record
\* read at that point is cancelled (a cancel recorded while analysis or the
\* call was in flight), process_job returns: it does not go on to save the
\* result and write the record completed.
C25_CancelObservedAfterCall ==
  [][(wpc = "pj_llm" /\ wpc' # wpc /\ _is_job_cancelled(wjob))
       => wpc' \notin {"pj_save", "complete_get", "complete_set"}]_vars

\* C26: process_job passes none of its checkpoints (before processing,
\* after parsing, before analysis, after the external call) with timeoutAt
\* in the past: the job goes to failed / timeout instead.
C26_TimeoutCheckedAtEveryCheckpoint ==
  [][\A step \in {<<"pj_start", "upd_get">>, <<"pj_timeout", "pj_parsed">>,
                  <<"pj_before_analysis", "pj_analysis">>,
                  <<"pj_llm", "pj_save">>} :
       (wpc = step[1] /\ wpc' = step[2])
         => ~TimedOut(_get_job_data(wjob), now)]_vars

\* C27: an item dequeued while its record reads cancelled is discarded: the
\* worker goes back to its loop without entering process_job and writes
\* nothing, and the record is not made processing by its dequeue.
C27_CancelledItemDiscarded ==
  [][/\ (wpc = "dequeued" /\ wpc' # wpc /\ _is_job_cancelled(wjob))
         => /\ wpc' = "loop"
            /\ current_job_id' = None
            /\ rec' = rec
            /\ errorJson' = errorJson
     /\ \A j \in Jobs :
          (rec[j].status = "cancelled" /\ wjob # j)
            => rec'[j].status # "processing"]_vars

\* C27 witness: the worker is back in its loop with nothing in hand, the
\* queue is empty, and a job that was cancelled before its dequeue and seen
\* as cancelled there is still cancelled
C27_Witness ==
  /\ wpc = "loop" /\ current_job_id = None /\ queue = <<>>
  /\ \E j \in seenCancelled :
       /\ rec[j].status = "cancelled"
       /\ metrics[j].received = 1
       /\ metrics[j].completed = 0 /\ metrics[j].failed = 0

(***************************************************************************)
(* Further properties of the insight orchestration                         *)
(***************************************************************************)

\* request number i of the latest call was an ordinary one (no fix-structure
\* instruction) and its response could not be parsed as JSON
UnparseableFirst(i) ==
  /\ ~grequests[i].fix_structure
  /\ grequests[i].outcome = "unparseable"

\* C28: when the LLM's first response cannot be parsed as JSON, the
\* orchestration (generate_insights as the worker uses it, and
\* generate_insights_fewshot) sends exactly one further request, with the
\* fix-structure instruction appended: until it is sent the call is waiting
\* to send it; once sent it is the call's last request, and when its response
\* is unparseable too the call has returned the fallback.
C28_UnparseableRepairedOnce ==
  \A i \in DOMAIN grequests :
    UnparseableFirst(i) =>
      IF i = Len(grequests)
      THEN gpc = "fix"
      ELSE /\ Len(grequests) = i + 1
           /\ grequests[i + 1].fix_structure
           /\ gpc = "idle"
           /\ (grequests[i + 1].outcome = "unparseable"
                 => gresult = "fallback")

\* the step in which the latest call gets response o to a request
Receives(o) ==
  \E f \in BOOLEAN :
    grequests' = Append(grequests, [fix_structure |-> f, outcome |-> o])

\* C29: once a response has been parsed as JSON, the orchestration
\* (generate_insights and generate_insights_fewshot) records a breaker
\* failure and returns the fallback exactly when the output holds no
\* recoverable structure (no usable insight and no summary), and otherwise
\* records a breaker success and returns the normalized result; an output
\* with empty insights and empty summary is never counted as a success.
C29_ValidationDecidesOutcome ==
  [][\A o \in {"valid", "empty", "nondict"} :
       Receives(o) =>
         /\ gpc' = "idle"
         /\ IF o = "valid"
            THEN /\ gresult' = "llm"
                 /\ cb' = _record_llm_success(cb)
            ELSE /\ gresult' = "fallback"
                 /\ cb' = _record_llm_failure(cb, clock)]_vars

\* the breaker state a step's recording starts from: the state the breaker
\* check leaves when the step begins a call, the current state otherwise
CheckedBreaker ==
  IF gpc = "idle" THEN _check_circuit_breaker(cb, clock).state ELSE cb

RecordsSuccess == gpc # "idle" /\ gresult' = "llm"

\* C31: a success recorded while the breaker is closed leaves the failure
\* history empty, so the breaker opens only on LLM_CIRCUIT_THRESHOLD failures
\* within the window that were all recorded after the last recorded success.
C31_SuccessClearsHistory ==
  [][/\ RecordsSuccess => (~cb.is_open /\ cb'.failures = <<>>)
     /\ (~cb.is_open /\ cb'.is_open) =>
          /\ Len(cb'.failures) >= LLM_CIRCUIT_THRESHOLD
          /\ Len(cb'.failures) <= gsince
          /\ \A i \in DOMAIN cb'.failures :
               InWindow(cb'.failures[i], clock)]_vars

\* C31 witness: a success has just removed a recorded failure from the
\* history of the closed breaker
C31_Witness ==
  /\ gpc = "idle" /\ gresult = "llm"
  /\ gcleared >= 1
  /\ gsince = 0
  /\ cb = ClosedBreaker

(***************************************************************************)
(* Properties of the breaker under two threads                             *)
(***************************************************************************)

\* the timestamps of history h that lie in the window at time t
KeptAt(h, t) == SelectSeq(h, LAMBDA ts : InWindow(ts, t))

\* C32: the breaker's check, record-failure and record-success operations
\* are mutually atomic: under any interleaving of two threads no recorded
\* failure is lost (the history a check stores is the history it finds,
\* less the timestamps older than the window), and is_open is true exactly
\* when opened_at is set.
C32_BreakerOperationsAtomic ==
  /\ [](cb.is_open <=> cb.opened_at # 0)
  /\ [][\A t \in Threads :
          (tpc[t] = "assign" /\ tpc'[t] # "assign")
            => cb'.failures = KeptAt(cb.failures, tnow[t])]_vars

(***************************************************************************)
(* Properties of the worker's error handling                               *)
(***************************************************************************)

\* the step in which process_job's handling of an exception ends: the
\* handler returns for a cancelled job, or _fail_job_with_error_json has
\* written the record
ExceptionHandled ==
  \/ wpc = "pj_except" /\ wpc' = "pj_return"
  \/ wpc = "fail_set" /\ wcode = "processing_error" /\ wpc' = "pj_return"

\* the step in which the worker takes an undecodable payload off the queue
UndecodableTaken ==
  /\ wpc = "brpop" /\ queue # <<>> /\ brpop_item(queue) = Undecodable
  /\ queue' = brpop_rest(queue)

\* the worker is handling the failure of an item
HandlingFailure ==
  \/ wpc = "pj_except"
  \/ wpc \in {"fail_get", "fail_set"} /\ wcode = "processing_error"

\* an undecodable payload is dropped without touching any record, and
\* after either kind of failure the worker resets current_job_id and gets
\* back to BRPOP
FailureNeverStopsWorker ==
  /\ [][UndecodableTaken =>
          /\ rec' = rec /\ errorJson' = errorJson /\ metrics' = metrics
          /\ current_job_id' = None
          /\ wpc' = "loop"]_vars
  /\ [][(wpc = "pj_return" /\ wpc' # wpc) =>
          (current_job_id' = None /\ wpc' = "loop")]_vars
  /\ [](wpc # "exited")
  /\ (HandlingFailure ~> (wpc = "brpop" /\ current_job_id = None))

\* C37 as stated: a failure while handling one queue item never stops the
\* worker: an exception in process_job is converted into a failed record
\* and not re-raised, an undecodable queue payload is dropped without
\* touching any record, and in both cases the worker resets current_job_id
\* and goes on to dequeue the next item.
C37_FailureNeverStopsWorker ==
  /\ [][ExceptionHandled => rec'[wjob].status = "failed"]_vars
  /\ FailureNeverStopsWorker

\* C37 amended: as stated, except that the exception of a job the handler
\* finds cancelled leaves the record as it is (cancelled) instead of
\* writing a failed one.
C37_FailureNeverStopsWorker_Amended ==
  /\ [][ExceptionHandled =>
          \/ rec'[wjob].status = "failed"
          \/ /\ wpc = "pj_except"
             /\ rec[wjob].status = "cancelled"
             /\ rec' = rec]_vars
  /\ FailureNeverStopsWorker

\* C37 witness: job 1 failed on an exception, the undecodable payload has
\* been taken off the queue, and the worker has dequeued job 2
C37_Witness ==
  /\ rec[1].status = "failed" /\ rec[1].error = "processing_error"
  /\ metrics[1].failed = 1
  /\ poison = 1 /\ \A i \in DOMAIN queue : queue[i] # Undecodable
  /\ wpc = "dequeued" /\ wjob = 2

(***************************************************************************)
(* Properties of the shutdown handler                                      *)
(***************************************************************************)

\* C38: after a termination signal the shutdown handler always returns and
\* the worker's main loop then exits, at whatever point of the main thread
\* the signal is delivered, also while the main thread holds the metrics
\* collector's lock inside increment or observe.
C38_HandlerAlwaysReturns ==
  (sigpc # "none") ~> (sigpc = "returned" /\ mainpc = "exit")

(***************************************************************************)
(* Properties of the job counters                                          *)
(***************************************************************************)

\* the value of a counter: the sum of its increments over the jobs
Total(name) == metrics[1][name] + metrics[2][name]

\* C39: for every dequeued job at most one of jobs_completed_total and
\* jobs_failed_total is incremented, and at most once, so in every
\* reachable state jobs_completed_total + jobs_failed_total is at most
\* jobs_received_total.
C39_OneOutcomeCountedPerJob ==
  /\ \A j \in Jobs :
       metrics[j].completed + metrics[j].failed <= metrics[j].received
  /\ Total("completed") + Total("failed") <= Total("received")

(***************************************************************************)
(* Properties of the upload API                                            *)
(***************************************************************************)

\* the queue holds an item of job j
Queued(j) == \E i \in DOMAIN queue : queue[i] = j

\* C40: upload_handler answers success (200 with the jobId and status
\* submitted) only if the job record was created and its queue item was
\* pushed to data_jobs, so no accepted job is in status submitted without
\* a queue item (on the queue, or taken off it by the worker).
C40_SuccessOnlyIfPushed ==
  \A j \in Jobs :
    (uploadAnswer[j] = 200 /\ rec[j].status = "submitted")
      => (Queued(j) \/ wjob = j)

====
